---- MODULE Spec2Model ----
\* Telemetry attribute selectors of the router: the three selector families
\* (RouterSelector, SupergraphSelector, SubgraphSelector), their evaluation on
\* requests and responses (GetAttribute::on_request / on_response) and their
\* loading from configuration (serde, untagged, deny_unknown_fields).
EXTENDS Integers, Sequences, FiniteSets, TLC

VARIABLES
    selector,   \* the selector under evaluation (&self)
    request,    \* the request object of the selector's pipeline stage
    response,   \* the response object of the selector's pipeline stage
    env,        \* the process environment: name -> bytes of the value
    active,     \* opentelemetry Context::current(): span context and baggage
    result,     \* the Option<AttributeValue> returned by the last evaluation
    phase,      \* which call produced result: "none", "request" or "response"
    built,      \* how many builder and ambient calls set the scene so far
    config,     \* the configuration object handed to the deserializer
    loaded,     \* the Result of deserializing config
    history,    \* the evaluations of the run so far, oldest first
    executions  \* the concurrent evaluations of the selector, one per thread

vars ==
    << selector, request, response, env, active, result, phase, built, config, loaded,
       history, executions >>

\* ---------------------------------------------------------------------------
\* Option<T>, Result<T, E> and maps
\* ---------------------------------------------------------------------------
None == << >>
Some(x) == << x >>
IsSome(o) == o # None
Unwrap(o) == o[1]

\* Option::or_else
OrElse(o, other) == IF IsSome(o) THEN o ELSE other

Ok(x) == [ok |-> TRUE, val |-> x]
Err == [ok |-> FALSE]
\* Result::ok
ResultOk(r) == IF r.ok THEN Some(r.val) ELSE None
\* Option<Option<T>>::flatten
Flatten(o) == IF IsSome(o) THEN Unwrap(o) ELSE None

EmptyMap == << >>
MapGet(m, k) == IF k \in DOMAIN m THEN Some(m[k]) ELSE None
MapInsert(m, k, v) == [x \in (DOMAIN m) \cup {k} |-> IF x = k THEN v ELSE m[x]]
MapRemove(m, k) == [x \in (DOMAIN m) \ {k} |-> m[x]]

\* ---------------------------------------------------------------------------
\* Text. A String is a TLA+ string; bytes are sequences of 0..255.
\* ---------------------------------------------------------------------------
\* The printable ASCII characters: codes 32..95, then 97..126. Code 96 (the
\* grave accent) has no literal here and occurs in no text of the model.
AsciiLow ==
    << " ", "!", "\"", "#", "$", "%", "&", "'", "(", ")", "*", "+",
       ",", "-", ".", "/", "0", "1", "2", "3", "4", "5", "6", "7",
       "8", "9", ":", ";", "<", "=", ">", "?", "@", "A", "B", "C",
       "D", "E", "F", "G", "H", "I", "J", "K", "L", "M", "N", "O",
       "P", "Q", "R", "S", "T", "U", "V", "W", "X", "Y", "Z", "[",
       "\\", "]", "^", "_" >>

AsciiHigh ==
    << "a", "b", "c", "d", "e", "f", "g", "h", "i", "j", "k", "l",
       "m", "n", "o", "p", "q", "r", "s", "t", "u", "v", "w", "x",
       "y", "z", "{", "|", "}", "~" >>

GraveAccent == 96

FirstPrintable == 32
LastPrintable == 126

IsPrintable(b) == b >= FirstPrintable /\ b <= LastPrintable

Chr(b) ==
    IF b < GraveAccent THEN AsciiLow[b - FirstPrintable + 1]
    ELSE AsciiHigh[b - GraveAccent]

\* The String made of the given printable ASCII bytes.
RECURSIVE StrOfAscii(_)
StrOfAscii(bytes) ==
    IF Len(bytes) = 0 THEN ""
    ELSE IF Len(bytes) = 1 THEN Chr(bytes[1])
    ELSE LET h == Len(bytes) \div 2
         IN  StrOfAscii(SubSeq(bytes, 1, h)) \o StrOfAscii(SubSeq(bytes, h + 1, Len(bytes)))

\* The byte strings the model builds its text from.
BytesTopProducts == << 116, 111, 112, 80, 114, 111, 100, 117, 99, 116, 115 >>
BytesDefaulted == << 100, 101, 102, 97, 117, 108, 116, 101, 100 >>
BytesHeaderValue == << 104, 101, 97, 100, 101, 114, 95, 118, 97, 108, 117, 101 >>
BytesEnvValue == << 101, 110, 118, 95, 118, 97, 108, 117, 101 >>
BytesNotText == << 255, 254 >>

KnownBytes ==
    { << >>, BytesTopProducts, BytesDefaulted, BytesHeaderValue, BytesEnvValue }

\* str::as_bytes, for the Strings of the model.
AsBytes(s) == CHOOSE b \in KnownBytes : StrOfAscii(b) = s

\* ---------------------------------------------------------------------------
\* SHA-256 (sha2::Sha256) and hex::encode, on 32-bit words kept as <<hi, lo>>
\* pairs of 16-bit halves so that no intermediate exceeds the integer range.
\* ---------------------------------------------------------------------------
Half == 65536

\* The powers of two up to 2^16.
PowersOfTwo ==
    << 1, 2, 4, 8, 16, 32, 64, 128, 256, 512, 1024, 2048, 4096, 8192, 16384,
       32768, 65536 >>
Pow2(n) == PowersOfTwo[n + 1]

\* Bitwise operations on 4-bit digits, tabulated, and on 16-bit halves, digit
\* by digit.
RECURSIVE XorBits(_, _, _)
XorBits(a, b, n) ==
    IF n = 0 THEN 0
    ELSE (((a % 2) + (b % 2)) % 2) + 2 * XorBits(a \div 2, b \div 2, n - 1)

RECURSIVE AndBits(_, _, _)
AndBits(a, b, n) ==
    IF n = 0 THEN 0
    ELSE ((a % 2) * (b % 2)) + 2 * AndBits(a \div 2, b \div 2, n - 1)

XorDigit == [a \in 0..15 |-> [b \in 0..15 |-> XorBits(a, b, 4)]]
AndDigit == [a \in 0..15 |-> [b \in 0..15 |-> AndBits(a, b, 4)]]

XorN(a, b) ==
    (XorDigit[a \div 4096][b \div 4096] * 4096
        + XorDigit[(a \div 256) % 16][(b \div 256) % 16] * 256)
    + (XorDigit[(a \div 16) % 16][(b \div 16) % 16] * 16
        + XorDigit[a % 16][b % 16])

AndN(a, b) ==
    (AndDigit[a \div 4096][b \div 4096] * 4096
        + AndDigit[(a \div 256) % 16][(b \div 256) % 16] * 256)
    + (AndDigit[(a \div 16) % 16][(b \div 16) % 16] * 16
        + AndDigit[a % 16][b % 16])

Xor32(x, y) == << XorN(x[1], y[1]), XorN(x[2], y[2]) >>
And32(x, y) == << AndN(x[1], y[1]), AndN(x[2], y[2]) >>
Not32(x) == << Half - 1 - x[1], Half - 1 - x[2] >>

Add32(x, y) ==
    LET lo == x[2] + y[2]
        hi == x[1] + y[1] + (lo \div Half)
    IN  << hi % Half, lo % Half >>

RECURSIVE Rotr32(_, _)
Rotr32(x, n) ==
    IF n >= 16 THEN Rotr32(<< x[2], x[1] >>, n - 16)
    ELSE LET p == Pow2(n)
             q == Pow2(16 - n)
         IN  << (x[1] \div p) + ((x[2] % p) * q),
                (x[2] \div p) + ((x[1] % p) * q) >>

Shr32(x, n) ==
    IF n >= 16 THEN << 0, x[1] \div Pow2(n - 16) >>
    ELSE LET p == Pow2(n)
             q == Pow2(16 - n)
         IN  << x[1] \div p, (x[2] \div p) + ((x[1] % p) * q) >>

BigSigma0(x) == Xor32(Xor32(Rotr32(x, 2), Rotr32(x, 13)), Rotr32(x, 22))
BigSigma1(x) == Xor32(Xor32(Rotr32(x, 6), Rotr32(x, 11)), Rotr32(x, 25))
SmallSigma0(x) == Xor32(Xor32(Rotr32(x, 7), Rotr32(x, 18)), Shr32(x, 3))
SmallSigma1(x) == Xor32(Xor32(Rotr32(x, 17), Rotr32(x, 19)), Shr32(x, 10))
Ch(x, y, z) == Xor32(And32(x, y), And32(Not32(x), z))
Maj(x, y, z) == Xor32(Xor32(And32(x, y), And32(x, z)), And32(y, z))

\* The round constants of SHA-256.
Sha256K ==
    << <<17034, 12184>>, <<28983, 17553>>, <<46528, 64463>>, <<59829, 56229>>,
       <<14678, 49755>>, <<23025, 4593>>, <<37439, 33444>>, <<43804, 24277>>,
       <<55303, 43672>>, <<4739, 23297>>, <<9265, 34238>>, <<21772, 32195>>,
       <<29374, 23924>>, <<32990, 45566>>, <<39900, 1703>>, <<49563, 61812>>,
       <<58523, 27073>>, <<61374, 18310>>, <<4033, 40390>>, <<9228, 41420>>,
       <<11753, 11375>>, <<19060, 33962>>, <<23728, 43484>>, <<30457, 35034>>,
       <<38974, 20818>>, <<43057, 50797>>, <<45059, 10184>>, <<48985, 32711>>,
       <<50912, 3059>>, <<54695, 37191>>, <<1738, 25425>>, <<5161, 10599>>,
       <<10167, 2693>>, <<11803, 8504>>, <<19756, 28156>>, <<21304, 3347>>,
       <<25866, 29524>>, <<30314, 2747>>, <<33218, 51502>>, <<37490, 11397>>,
       <<41663, 59553>>, <<43034, 26187>>, <<49739, 35696>>, <<51052, 20899>>,
       <<53650, 59417>>, <<54937, 1572>>, <<62478, 13701>>, <<4202, 41072>>,
       <<6564, 49430>>, <<7735, 27656>>, <<10056, 30540>>, <<13488, 48309>>,
       <<14620, 3251>>, <<20184, 43594>>, <<23452, 51791>>, <<26670, 28659>>,
       <<29839, 33518>>, <<30885, 25455>>, <<33992, 30740>>, <<36039, 520>>,
       <<37054, 65530>>, <<42064, 27883>>, <<48889, 41975>>, <<50801, 30962>> >>

\* The initial hash value of SHA-256.
Sha256H0 ==
    << <<27145, 58983>>, <<47975, 44677>>, <<15470, 62322>>, <<42319, 62778>>,
       <<20750, 21119>>, <<39685, 26764>>, <<8067, 55723>>, <<23520, 52505>> >>

\* The padded message: the bytes, 0x80, zeros up to 56 mod 64, and the bit
\* length as a 64-bit big-endian integer.
Zeros(n) == [i \in 1..n |-> 0]

Sha256Pad(bytes) ==
    LET n    == Len(bytes)
        z    == (119 - (n % 64)) % 64
        bits == n * 8
    IN  bytes \o << 128 >> \o Zeros(z) \o Zeros(4)
          \o << (bits \div 16777216) % 256, (bits \div Half) % 256,
                (bits \div 256) % 256, bits % 256 >>

\* Word i (0-based) of the block starting at byte offset off.
BlockWord(m, off, i) ==
    LET b == off + 4 * i
    IN  << m[b + 1] * 256 + m[b + 2], m[b + 3] * 256 + m[b + 4] >>

\* The message schedule grown by one word: a word of the block for the first
\* sixteen, a mix of four earlier words after that.
ScheduleStep(m, off, w) ==
    LET t == Len(w)
    IN  IF t < 16 THEN Append(w, BlockWord(m, off, t))
        ELSE Append(w, Add32(Add32(SmallSigma1(w[t - 1]), w[t - 6]),
                             Add32(SmallSigma0(w[t - 14]), w[t - 15])))

\* The schedule grown until it holds n words; a long run is made as two runs
\* of half the length.
RECURSIVE ScheduleUpTo(_, _, _, _)
ScheduleUpTo(m, off, w, n) ==
    IF Len(w) >= n THEN w
    ELSE IF n - Len(w) = 1 THEN ScheduleStep(m, off, w)
    ELSE ScheduleUpTo(m, off,
             ScheduleUpTo(m, off, w, Len(w) + ((n - Len(w)) \div 2)), n)

Schedule(m, off) == ScheduleUpTo(m, off, << >>, 64)

\* One round: the working variables <<a, b, c, d, e, f, g, h>> after round s.t + 1.
Round(s, w) ==
    LET v  == s.v
        t  == s.t + 1
        t1 == Add32(Add32(Add32(v[8], BigSigma1(v[5])),
                          Add32(Ch(v[5], v[6], v[7]), Sha256K[t])), w[t])
        t2 == Add32(BigSigma0(v[1]), Maj(v[1], v[2], v[3]))
    IN  [t |-> t,
         v |-> << Add32(t1, t2), v[1], v[2], v[3],
                  Add32(v[4], t1), v[5], v[6], v[7] >>]

\* The rounds up to round n; a long run is made as two runs of half the length.
RECURSIVE Rounds(_, _, _)
Rounds(s, w, n) ==
    IF s.t >= n THEN s
    ELSE IF n - s.t = 1 THEN Round(s, w)
    ELSE Rounds(Rounds(s, w, s.t + ((n - s.t) \div 2)), w, n)

Compress(h, m, off) ==
    LET w == Schedule(m, off)
        s == Rounds([t |-> 0, v |-> h], w, Len(w)).v
    IN  << Add32(h[1], s[1]), Add32(h[2], s[2]), Add32(h[3], s[3]),
           Add32(h[4], s[4]), Add32(h[5], s[5]), Add32(h[6], s[6]),
           Add32(h[7], s[7]), Add32(h[8], s[8]) >>

RECURSIVE Blocks(_, _, _)
Blocks(h, m, off) ==
    IF off >= Len(m) THEN h ELSE Blocks(Compress(h, m, off), m, off + 64)

\* hasher.update(bytes); hasher.finalize(): the 32 digest bytes.
WordsToBytes(ws) ==
    [i \in 1..(4 * Len(ws)) |->
        LET half == ws[((i - 1) \div 4) + 1][(((i - 1) \div 2) % 2) + 1]
        IN  IF i % 2 = 1 THEN half \div 256 ELSE half % 256]

Sha256(bytes) == WordsToBytes(Blocks(Sha256H0, Sha256Pad(bytes), 0))

\* hex::encode: two lowercase hexadecimal digits per byte.
HexDigits == << "0", "1", "2", "3", "4", "5", "6", "7",
                "8", "9", "a", "b", "c", "d", "e", "f" >>

\* The digits of a sequence of 4-bit values, one character each; a long
\* sequence is rendered as its two halves.
RECURSIVE RenderHex(_)
RenderHex(ds) ==
    IF Len(ds) = 0 THEN ""
    ELSE IF Len(ds) = 1 THEN HexDigits[ds[1] + 1]
    ELSE LET h == Len(ds) \div 2
         IN  RenderHex(SubSeq(ds, 1, h)) \o RenderHex(SubSeq(ds, h + 1, Len(ds)))

HexEncode(bytes) ==
    RenderHex([i \in 1..(2 * Len(bytes)) |->
                  IF i % 2 = 1 THEN bytes[(i + 1) \div 2] \div 16
                  ELSE bytes[i \div 2] % 16])

\* ---------------------------------------------------------------------------
\* AttributeValue and the values it is built from
\* ---------------------------------------------------------------------------
\* An enum value is a record with one field, named after its variant.
Variant(x) == CHOOSE k \in DOMAIN x : TRUE

String(s) == [String |-> s]
I64(n) == [I64 |-> n]
U128(n) == [U128 |-> n]
Bool(b) == [Bool |-> b]

\* JSON values (serde_json_bytes::Value). Arrays hold a sequence of values,
\* objects a sequence of <<key, value>> pairs in insertion order.
JNull == [null |-> TRUE]
JBool(b) == [bool |-> b]
JNumber(n) == [number |-> n]
JString(s) == [string |-> s]
JArray(xs) == [array |-> xs]
JObject(fs) == [object |-> fs]

DecDigits == << "0", "1", "2", "3", "4", "5", "6", "7", "8", "9" >>

RECURSIVE NatToString(_)
NatToString(n) ==
    IF n < 10 THEN DecDigits[n + 1]
    ELSE NatToString(n \div 10) \o DecDigits[(n % 10) + 1]

IntToString(n) == IF n < 0 THEN "-" \o NatToString(0 - n) ELSE NatToString(n)

\* serde_json::to_string(v). The strings of the model hold no character that
\* JSON escapes, so a string is written between two quotes as it is.
RECURSIVE ToJsonString(_), JoinArray(_), JoinObject(_)
ToJsonString(j) ==
    CASE Variant(j) = "null"   -> "null"
      [] Variant(j) = "bool"   -> (IF j.bool THEN "true" ELSE "false")
      [] Variant(j) = "number" -> IntToString(j.number)
      [] Variant(j) = "string" -> "\"" \o j.string \o "\""
      [] Variant(j) = "array"  -> "[" \o JoinArray(j.array) \o "]"
      [] Variant(j) = "object" -> "{" \o JoinObject(j.object) \o "}"

JoinArray(xs) ==
    IF xs = << >> THEN ""
    ELSE IF Len(xs) = 1 THEN ToJsonString(xs[1])
    ELSE ToJsonString(xs[1]) \o "," \o JoinArray(Tail(xs))

JoinObject(fs) ==
    IF fs = << >> THEN ""
    ELSE LET f == "\"" \o fs[1][1] \o "\":" \o ToJsonString(fs[1][2])
         IN  IF Len(fs) = 1 THEN f ELSE f \o "," \o JoinObject(Tail(fs))

\* AttributeValue::try_from(json), and the deserialization of a context entry
\* into an AttributeValue: a scalar converts, null, arrays and objects do not.
AttributeValueFromJson(j) ==
    CASE Variant(j) = "bool"   -> Ok(Bool(j.bool))
      [] Variant(j) = "number" -> Ok(I64(j.number))
      [] Variant(j) = "string" -> Ok(String(j.string))
      [] OTHER                 -> Err

\* The deserialization of a context entry into a String.
StringFromJson(j) == IF Variant(j) = "string" THEN Ok(j.string) ELSE Err

\* Context::get::<_, AttributeValue>(key): Ok(None) when the key is absent,
\* Err when the entry does not deserialize.
ContextGet(context, key) ==
    IF key \in DOMAIN context
    THEN LET r == AttributeValueFromJson(context[key])
         IN  IF r.ok THEN Ok(Some(r.val)) ELSE Err
    ELSE Ok(None)

\* Context::get::<_, String>(key)
ContextGetString(context, key) ==
    IF key \in DOMAIN context
    THEN LET r == StringFromJson(context[key])
         IN  IF r.ok THEN Ok(Some(r.val)) ELSE Err
    ELSE Ok(None)

\* crate::context::{OPERATION_NAME, OPERATION_KIND}
OPERATION_NAME == "operation_name"
OPERATION_KIND == "operation_kind"

\* AttributeValue::from(opentelemetry Value), for a baggage entry's value.
AttributeValueFromBaggage(v) ==
    CASE Variant(v) = "String" -> String(v.String)
      [] Variant(v) = "I64"    -> I64(v.I64)
      [] Variant(v) = "Bool"   -> Bool(v.Bool)

\* ---------------------------------------------------------------------------
\* Source accessors
\* ---------------------------------------------------------------------------
\* http::HeaderMap::get(name): the first value stored under the name.
RECURSIVE HeaderGet(_, _)
HeaderGet(headers, name) ==
    IF headers = << >> THEN None
    ELSE IF Head(headers).name = name THEN Some(Head(headers).value)
    ELSE HeaderGet(Tail(headers), name)

Tab == 9
IsVisibleAscii(b) == IsPrintable(b) \/ b = Tab

AllVisibleAscii(bytes) == \A i \in 1..Len(bytes) : IsVisibleAscii(bytes[i])

\* http::HeaderValue::to_str
HeaderToStr(value) ==
    IF AllVisibleAscii(value) THEN Ok(StrOfAscii(value)) ELSE Err

\* The header lookup, had a value that is not text been read as the empty text.
HeaderAttributeOrEmpty(headers, name) ==
    LET h == HeaderGet(headers, name)
    IN  IF IsSome(h)
        THEN LET s == ResultOk(HeaderToStr(Unwrap(h)))
             IN  IF IsSome(s) THEN Some(String(Unwrap(s))) ELSE Some(String(""))
        ELSE None

\* headers.get(name).and_then(|h| Some(AttributeValue::String(h.to_str().ok()?.to_string())))
HeaderAttribute(headers, name) ==
    LET h == HeaderGet(headers, name)
    IN  IF IsSome(h)
        THEN LET s == ResultOk(HeaderToStr(Unwrap(h)))
             IN  IF IsSome(s) THEN Some(String(Unwrap(s))) ELSE None
        ELSE None

\* std::env::var(name): Err when the variable is unset or is not valid Unicode.
MaxAscii == 127
AllAscii(bytes) == \A i \in 1..Len(bytes) : bytes[i] <= MaxAscii

\* std::env::var(name), had a variable set to the empty text been read as unset.
EnvVarNonEmpty(name) ==
    IF name \in DOMAIN env /\ env[name] # << >>
    THEN IF AllAscii(env[name]) THEN Ok(StrOfAscii(env[name])) ELSE Err
    ELSE Err

EnvVar(name) ==
    IF name \in DOMAIN env
    THEN IF AllAscii(env[name]) THEN Ok(StrOfAscii(env[name])) ELSE Err
    ELSE Err

\* Context::current().baggage().get(name)
BaggageGet(name) == MapGet(active.baggage, name)

\* 128-bit unsigned integers are eight 16-bit limbs, most significant first.
U128Of(n) == << 0, 0, 0, 0, 0, 0, 0, n >>

\* TraceId::INVALID and SpanId::INVALID
TraceIdInvalid == << 0, 0, 0, 0, 0, 0, 0, 0 >>
SpanIdInvalid == 0

\* SpanContext::empty_context(): what the no-op span of a context without an
\* active span carries.
EmptySpanContext == [trace_id |-> TraceIdInvalid, span_id |-> SpanIdInvalid]

\* Context::current().span().span_context()
CurrentSpanContext ==
    IF IsSome(active.span) THEN Unwrap(active.span) ELSE EmptySpanContext

\* is_valid, had it looked at the trace identifier alone.
SpanContextHasTraceId(sc) == sc.trace_id # TraceIdInvalid

\* SpanContext::is_valid
SpanContextIsValid(sc) ==
    sc.trace_id # TraceIdInvalid /\ sc.span_id # SpanIdInvalid

\* TraceId::to_bytes: the sixteen bytes, big-endian.
TraceIdToBytes(id) ==
    [i \in 1..(2 * Len(id)) |->
        IF i % 2 = 1 THEN id[(i + 1) \div 2] \div 256 ELSE id[i \div 2] % 256]

\* u128::from_be_bytes
U128FromBeBytes(bytes) ==
    [i \in 1..(Len(bytes) \div 2) |-> (bytes[(2 * i) - 1] * 256) + bytes[2 * i]]

\* The hexadecimal digits of a 128-bit integer, most significant first.
Nibbles(ls) ==
    [i \in 1..(4 * Len(ls)) |->
        (ls[((i - 1) \div 4) + 1] \div Pow2(4 * (3 - ((i - 1) % 4)))) % 16]

\* The digits from the first one that is not zero; the last digit is kept.
StripLeadingZeros(ds) ==
    LET first == CHOOSE i \in 1..Len(ds) :
                     /\ ds[i] # 0 \/ i = Len(ds)
                     /\ \A j \in 1..(i - 1) : ds[j] = 0
    IN  SubSeq(ds, first, Len(ds))

\* format!("{:x}", n)
LowerHex(n) == RenderHex(StripLeadingZeros(Nibbles(n)))

\* n zeros, as text.
RECURSIVE ZeroText(_)
ZeroText(n) ==
    IF n = 0 THEN ""
    ELSE IF n % 2 = 1 THEN "0" \o ZeroText(n - 1)
    ELSE LET half == ZeroText(n \div 2) IN half \o half

PadLeft(s, width) == IF Len(s) >= width THEN s ELSE ZeroText(width - Len(s)) \o s

\* TraceId's Display, had it been format!("{:x}", self.0).
TraceIdToStringUnpadded(id) == LowerHex(id)

\* TraceId's Display: format!("{:032x}", self.0)
TraceIdWidth == 32
TraceIdToString(id) == PadLeft(LowerHex(id), TraceIdWidth)

\* http::StatusCode::canonical_reason: the codes that have a reason phrase.
CanonicalReasons ==
    { << 100, "Continue" >>,
      << 101, "Switching Protocols" >>,
      << 102, "Processing" >>,
      << 200, "OK" >>,
      << 201, "Created" >>,
      << 202, "Accepted" >>,
      << 203, "Non Authoritative Information" >>,
      << 204, "No Content" >>,
      << 205, "Reset Content" >>,
      << 206, "Partial Content" >>,
      << 207, "Multi-Status" >>,
      << 208, "Already Reported" >>,
      << 226, "IM Used" >>,
      << 300, "Multiple Choices" >>,
      << 301, "Moved Permanently" >>,
      << 302, "Found" >>,
      << 303, "See Other" >>,
      << 304, "Not Modified" >>,
      << 305, "Use Proxy" >>,
      << 307, "Temporary Redirect" >>,
      << 308, "Permanent Redirect" >>,
      << 400, "Bad Request" >>,
      << 401, "Unauthorized" >>,
      << 402, "Payment Required" >>,
      << 403, "Forbidden" >>,
      << 404, "Not Found" >>,
      << 405, "Method Not Allowed" >>,
      << 406, "Not Acceptable" >>,
      << 407, "Proxy Authentication Required" >>,
      << 408, "Request Timeout" >>,
      << 409, "Conflict" >>,
      << 410, "Gone" >>,
      << 411, "Length Required" >>,
      << 412, "Precondition Failed" >>,
      << 413, "Payload Too Large" >>,
      << 414, "URI Too Long" >>,
      << 415, "Unsupported Media Type" >>,
      << 416, "Range Not Satisfiable" >>,
      << 417, "Expectation Failed" >>,
      << 418, "I'm a teapot" >>,
      << 421, "Misdirected Request" >>,
      << 422, "Unprocessable Entity" >>,
      << 423, "Locked" >>,
      << 424, "Failed Dependency" >>,
      << 426, "Upgrade Required" >>,
      << 428, "Precondition Required" >>,
      << 429, "Too Many Requests" >>,
      << 431, "Request Header Fields Too Large" >>,
      << 451, "Unavailable For Legal Reasons" >>,
      << 500, "Internal Server Error" >>,
      << 501, "Not Implemented" >>,
      << 502, "Bad Gateway" >>,
      << 503, "Service Unavailable" >>,
      << 504, "Gateway Timeout" >>,
      << 505, "HTTP Version Not Supported" >>,
      << 506, "Variant Also Negotiates" >>,
      << 507, "Insufficient Storage" >>,
      << 508, "Loop Detected" >>,
      << 510, "Not Extended" >>,
      << 511, "Network Authentication Required" >> }

\* canonical_reason, had a code without a reason phrase been given an empty one.
CanonicalReasonOrEmpty(code) ==
    IF \E e \in CanonicalReasons : e[1] = code
    THEN Some((CHOOSE e \in CanonicalReasons : e[1] = code)[2])
    ELSE Some("")

CanonicalReason(code) ==
    IF \E e \in CanonicalReasons : e[1] = code
    THEN Some((CHOOSE e \in CanonicalReasons : e[1] = code)[2])
    ELSE None

\* The status code, had the cast been as i8: the low eight bits, signed.
StatusAsI8(code) == ((code + 128) % 256) - 128

\* response.response.status().as_u16() as i64
StatusAsI64(code) == code

\* A response body the JSON-path evaluator cannot read.
JUnreadable == [unreadable |-> TRUE]

RECURSIVE JsonField(_, _)
JsonField(fs, name) ==
    IF fs = << >> THEN None
    ELSE IF fs[1][1] = name THEN Some(fs[1][2])
    ELSE JsonField(Tail(fs), name)

RECURSIVE JsonPath(_, _)
JsonPath(path, j) ==
    IF path = << >> THEN Some(j)
    ELSE IF Variant(j) = "object"
         THEN LET f == JsonField(j.object, Head(path))
              IN  IF IsSome(f) THEN JsonPath(Tail(path), Unwrap(f)) ELSE None
         ELSE None

\* access_json::JSONQuery::execute(body): Err, Ok(None) when the path matches
\* nothing, Ok(Some(value)) for the matched value.
JsonQueryExecute(path, body) ==
    IF body = JUnreadable THEN Err ELSE Ok(JsonPath(path, body))

\* Option::map
OptMap(o, F(_)) == IF IsSome(o) THEN Some(F(Unwrap(o))) ELSE None

\* sha2::Sha256 over op_name.as_bytes(), then hex::encode. The digests of the
\* byte strings of the model are computed once: the digest bytes, then their
\* hexadecimal text.
Sha256Of == [b \in KnownBytes |-> Sha256(b)]
DigestOf == [b \in KnownBytes |-> HexEncode(Sha256Of[b])]
HashOperationName(op_name) == DigestOf[AsBytes(op_name)]

\* The operation-name arms, had the digest been taken of the name alone, before
\* the default is substituted.
OperationNameAttributeHashingNameOnly(mode, op_name, default) ==
    OptMap(OrElse(IF mode = "String" THEN op_name ELSE OptMap(op_name, HashOperationName),
                  default), String)

\* The body of the three operation-name arms: the name, else the default,
\* hashed in Hash mode, as a String attribute.
OperationNameAttribute(mode, op_name, default) ==
    LET raw == OrElse(op_name, default)
    IN  OptMap(IF mode = "String" THEN raw ELSE OptMap(raw, HashOperationName), String)

\* The query-variable arms, had the bound value been converted to an attribute
\* (AttributeValue::try_from) instead of serialized.
QueryVariableAttributeConverted(variables, name, default) ==
    LET v == MapGet(variables, name)
    IN  OrElse(IF IsSome(v) THEN ResultOk(AttributeValueFromJson(Unwrap(v))) ELSE None,
               default)

\* body().variables.get(name).and_then(|v| serde_json::to_string(v).ok())
\*     .map(AttributeValue::String).or_else(|| default.clone())
QueryVariableAttribute(variables, name, default) ==
    OrElse(OptMap(OptMap(MapGet(variables, name), ToJsonString), String), default)

\* body().query.clone().or_else(|| default.clone()).map(AttributeValue::String)
QueryAttribute(query, default) == OptMap(OrElse(query, default), String)

\* context.get(key).ok().flatten().or_else(|| default.clone())
ContextAttribute(context, key, default) ==
    OrElse(Flatten(ResultOk(ContextGet(context, key))), default)

\* The Env arm, had it kept what the first evaluation of the run read.
EnvAttributeCached(name, default) ==
    LET seen == { i \in 1..Len(history) : history[i].phase = "request" }
    IN  IF seen # {}
        THEN history[CHOOSE i \in seen : \A j \in seen : i <= j].result
        ELSE OrElse(OptMap(ResultOk(EnvVar(name)), String), OptMap(default, String))

\* std::env::var(env).ok().map(AttributeValue::String)
\*     .or_else(|| default.clone().map(AttributeValue::String))
EnvAttribute(name, default) ==
    OrElse(OptMap(ResultOk(EnvVar(name)), String), OptMap(default, String))

\* The Baggage arm, had it looked the key up in the request's context map when
\* the active baggage does not hold it.
BaggageAttributeOrContext(name, default) ==
    LET b == BaggageGet(name)
    IN  IF IsSome(b) THEN Some(AttributeValueFromBaggage(Unwrap(b)))
        ELSE ContextAttribute(request.context, name, default)

\* match baggage.get(name) { Some(b) => AttributeValue::from(b).into(), None => default }
BaggageAttribute(name, default) ==
    LET b == BaggageGet(name)
    IN  IF IsSome(b) THEN Some(AttributeValueFromBaggage(Unwrap(b))) ELSE default

\* The TraceId arm of RouterSelector::on_request.
TraceIdAttribute(format) ==
    IF SpanContextIsValid(CurrentSpanContext)
    THEN LET id == CurrentSpanContext.trace_id
         IN  Some(IF format = "OpenTelemetry"
                  THEN String(TraceIdToString(id))
                  ELSE U128(U128FromBeBytes(TraceIdToBytes(id))))
    ELSE None

\* The ResponseStatus arm of on_response.
StatusAttribute(mode, code) ==
    IF mode = "Code" THEN Some(I64(StatusAsI64(code)))
    ELSE OptMap(CanonicalReason(code), String)

\* The SubgraphResponseBody arm of SubgraphSelector::on_response: the ? returns
\* None when the evaluator fails or matches nothing.
ResponseBodyAttribute(path, body, default) ==
    LET output == Flatten(ResultOk(JsonQueryExecute(path, body)))
    IN  IF output = None THEN None
        ELSE OrElse(ResultOk(AttributeValueFromJson(Unwrap(output))), default)

\* OperationKind::as_apollo_operation_type().to_string()
OperationKindToString(kind) ==
    CASE kind = "Query"        -> "query"
      [] kind = "Mutation"     -> "mutation"
      [] kind = "Subscription" -> "subscription"

\* RouterSelector::on_request, had the arm of the other variants answered with
\* the configured default.
RouterOnRequestDefaulting(self, req) ==
    CASE self.variant = "RequestHeader" ->
             OrElse(HeaderAttribute(req.router_request.headers, self.request_header),
                    self.default)
      [] self.variant = "Env" -> EnvAttribute(self.env, self.default)
      [] self.variant = "TraceId" -> TraceIdAttribute(self.trace_id)
      [] self.variant = "Baggage" -> BaggageAttribute(self.baggage, self.default)
      [] OTHER -> IF "default" \in DOMAIN self THEN self.default ELSE None

\* ---------------------------------------------------------------------------
\* impl GetAttribute for RouterSelector
\* ---------------------------------------------------------------------------
RouterOnRequest(self, req) ==
    CASE self.variant = "RequestHeader" ->
             OrElse(HeaderAttribute(req.router_request.headers, self.request_header),
                    self.default)
      [] self.variant = "Env" -> EnvAttribute(self.env, self.default)
      [] self.variant = "TraceId" -> TraceIdAttribute(self.trace_id)
      [] self.variant = "Baggage" -> BaggageAttribute(self.baggage, self.default)
      [] OTHER -> None

\* RouterSelector::on_response, had it no Baggage arm, as the on_response of
\* the other two families.
RouterOnResponseWithoutBaggage(self, resp) ==
    CASE self.variant = "ResponseHeader" ->
             OrElse(HeaderAttribute(resp.response.headers, self.response_header),
                    self.default)
      [] self.variant = "ResponseStatus" ->
             StatusAttribute(self.response_status, resp.response.status)
      [] self.variant = "ResponseContext" ->
             ContextAttribute(resp.context, self.response_context, self.default)
      [] OTHER -> None

RouterOnResponse(self, resp) ==
    CASE self.variant = "ResponseHeader" ->
             OrElse(HeaderAttribute(resp.response.headers, self.response_header),
                    self.default)
      [] self.variant = "ResponseStatus" ->
             StatusAttribute(self.response_status, resp.response.status)
      [] self.variant = "ResponseContext" ->
             ContextAttribute(resp.context, self.response_context, self.default)
      [] self.variant = "Baggage" -> BaggageAttribute(self.baggage, self.default)
      [] OTHER -> None

\* ---------------------------------------------------------------------------
\* impl GetAttribute for SupergraphSelector
\* ---------------------------------------------------------------------------
SupergraphOnRequest(self, req) ==
    CASE self.variant = "OperationName" ->
             OperationNameAttribute(self.operation_name,
                 Flatten(ResultOk(ContextGetString(req.context, OPERATION_NAME))),
                 self.default)
      [] self.variant = "OperationKind" ->
             Flatten(ResultOk(ContextGet(req.context, OPERATION_KIND)))
      [] self.variant = "Query" ->
             QueryAttribute(req.supergraph_request.body.query, self.default)
      [] self.variant = "QueryVariable" ->
             QueryVariableAttribute(req.supergraph_request.body.variables,
                                    self.query_variable, self.default)
      [] self.variant = "RequestHeader" ->
             OrElse(HeaderAttribute(req.supergraph_request.headers, self.request_header),
                    self.default)
      [] self.variant = "RequestContext" ->
             ContextAttribute(req.context, self.request_context, self.default)
      [] self.variant = "Baggage" -> BaggageAttribute(self.baggage, self.default)
      [] self.variant = "Env" -> EnvAttribute(self.env, self.default)
      [] OTHER -> None

SupergraphOnResponse(self, resp) ==
    CASE self.variant = "ResponseHeader" ->
             OrElse(HeaderAttribute(resp.response.headers, self.response_header),
                    self.default)
      [] self.variant = "ResponseContext" ->
             ContextAttribute(resp.context, self.response_context, self.default)
      [] OTHER -> None

\* ---------------------------------------------------------------------------
\* impl GetAttribute for SubgraphSelector
\* ---------------------------------------------------------------------------
SubgraphOnRequest(self, req) ==
    CASE self.variant = "SubgraphOperationName" ->
             OperationNameAttribute(self.subgraph_operation_name,
                 req.subgraph_request.body.operation_name, self.default)
      [] self.variant = "SupergraphOperationName" ->
             OperationNameAttribute(self.supergraph_operation_name,
                 Flatten(ResultOk(ContextGetString(req.context, OPERATION_NAME))),
                 self.default)
      [] self.variant = "SubgraphOperationKind" ->
             Some(String(OperationKindToString(req.operation_kind)))
      [] self.variant = "SupergraphOperationKind" ->
             Flatten(ResultOk(ContextGet(req.context, OPERATION_KIND)))
      [] self.variant = "SupergraphQuery" ->
             QueryAttribute(req.supergraph_request.body.query, self.default)
      [] self.variant = "SubgraphQuery" ->
             QueryAttribute(req.subgraph_request.body.query, self.default)
      [] self.variant = "SubgraphQueryVariable" ->
             QueryVariableAttribute(req.subgraph_request.body.variables,
                                    self.subgraph_query_variable, self.default)
      [] self.variant = "SupergraphQueryVariable" ->
             QueryVariableAttribute(req.supergraph_request.body.variables,
                                    self.supergraph_query_variable, self.default)
      [] self.variant = "SubgraphRequestHeader" ->
             OrElse(HeaderAttribute(req.subgraph_request.headers,
                                    self.subgraph_request_header), self.default)
      [] self.variant = "SupergraphRequestHeader" ->
             OrElse(HeaderAttribute(req.supergraph_request.headers,
                                    self.supergraph_request_header), self.default)
      [] self.variant = "RequestContext" ->
             ContextAttribute(req.context, self.request_context, self.default)
      [] self.variant = "Baggage" -> BaggageAttribute(self.baggage, self.default)
      [] self.variant = "Env" -> EnvAttribute(self.env, self.default)
      [] OTHER -> None

SubgraphOnResponse(self, resp) ==
    CASE self.variant = "SubgraphResponseHeader" ->
             OrElse(HeaderAttribute(resp.response.headers,
                                    self.subgraph_response_header), self.default)
      [] self.variant = "SubgraphResponseStatus" ->
             StatusAttribute(self.subgraph_response_status, resp.response.status)
      [] self.variant = "SubgraphResponseBody" ->
             ResponseBodyAttribute(self.subgraph_response_body, resp.response.body,
                                   self.default)
      [] self.variant = "ResponseContext" ->
             ContextAttribute(resp.context, self.response_context, self.default)
      [] OTHER -> None

\* on_response, had the Env arm been matched at response time as well.
OnResponseValueReadingEnv(self, resp) ==
    IF self.variant = "Env" THEN EnvAttribute(self.env, self.default)
    ELSE CASE self.family = "router"     -> RouterOnResponse(self, resp)
           [] self.family = "supergraph" -> SupergraphOnResponse(self, resp)
           [] self.family = "subgraph"   -> SubgraphOnResponse(self, resp)

\* on_request, had the operation-kind arms answered "query" when the context
\* map holds no operation kind.
OnRequestValueKindAssumed(self, req) ==
    LET value == CASE self.family = "router"     -> RouterOnRequest(self, req)
                   [] self.family = "supergraph" -> SupergraphOnRequest(self, req)
                   [] self.family = "subgraph"   -> SubgraphOnRequest(self, req)
    IN  IF self.variant \in { "OperationKind", "SupergraphOperationKind" }
        THEN OrElse(value, Some(String("query")))
        ELSE value

\* on_request, had the subgraph arms read the other of the two requests a
\* subgraph request carries.
OnRequestValueOtherRequest(self, req) ==
    CASE self.family = "router"     -> RouterOnRequest(self, req)
      [] self.family = "supergraph" -> SupergraphOnRequest(self, req)
      [] self.family = "subgraph"   ->
             SubgraphOnRequest(self,
                 [req EXCEPT !.subgraph_request = req.supergraph_request,
                             !.supergraph_request = req.subgraph_request])

\* on_request, had the value been handed out once: an evaluation that follows
\* an evaluation of the same request finds nothing.
OnRequestValueOnce(self, req) ==
    IF phase = "request" THEN None
    ELSE CASE self.family = "router"     -> RouterOnRequest(self, req)
           [] self.family = "supergraph" -> SupergraphOnRequest(self, req)
           [] self.family = "subgraph"   -> SubgraphOnRequest(self, req)

\* on_request, had it masked the value of a selector that holds a redact
\* pattern.
OnRequestValueRedacting(self, req) ==
    LET value == CASE self.family = "router"     -> RouterOnRequest(self, req)
                   [] self.family = "supergraph" -> SupergraphOnRequest(self, req)
                   [] self.family = "subgraph"   -> SubgraphOnRequest(self, req)
    IN  IF "redact" \in DOMAIN self /\ IsSome(self.redact) /\ IsSome(value)
        THEN Some(String("[redacted]"))
        ELSE value

\* GetAttribute::on_request and on_response, dispatched on the selector's family.
OnRequestValue(self, req) ==
    CASE self.family = "router"     -> RouterOnRequest(self, req)
      [] self.family = "supergraph" -> SupergraphOnRequest(self, req)
      [] self.family = "subgraph"   -> SubgraphOnRequest(self, req)

OnResponseValue(self, resp) ==
    CASE self.family = "router"     -> RouterOnResponse(self, resp)
      [] self.family = "supergraph" -> SupergraphOnResponse(self, resp)
      [] self.family = "subgraph"   -> SubgraphOnResponse(self, resp)

\* ---------------------------------------------------------------------------
\* The selectors, requests, responses and ambient values of the model
\* ---------------------------------------------------------------------------
MaxFields == 2

HeaderKey == "header_key"
ContextKey == "context_key"
BaggageKey == "baggage_key"
EnvName == "SELECTOR_ENV_VARIABLE"
VariableName == "key"
BodyPath == << "data", "value" >>

AttributeDefaults == { None, Some(String("defaulted")) }
StringDefaults == { None, Some("defaulted") }
OperationNameModes == { "String", "Hash" }
ResponseStatusModes == { "Code", "Reason" }
TraceIdFormats == { "OpenTelemetry", "Datadog" }

\* A variant with a key, a redaction pattern and a default.
Keyed(family, variant, field, key, default) ==
    (field :> key) @@
    [family |-> family, variant |-> variant, redact |-> None, default |-> default]

\* A variant that carries its mode alone.
Plain(family, variant, field, mode) ==
    (field :> mode) @@ [family |-> family, variant |-> variant]

\* The variants whose default is an Option<AttributeValue>.
AttributeSelectors ==
    { Keyed("router", "RequestHeader", "request_header", HeaderKey, d) :
            d \in AttributeDefaults }
    \cup { Keyed("router", "ResponseHeader", "response_header", HeaderKey, d) :
            d \in AttributeDefaults }
    \cup { Keyed("router", "ResponseContext", "response_context", ContextKey, d) :
            d \in AttributeDefaults }
    \cup { Keyed("router", "Baggage", "baggage", BaggageKey, d) :
            d \in AttributeDefaults }
    \cup { Keyed("supergraph", "QueryVariable", "query_variable", VariableName, d) :
            d \in AttributeDefaults }
    \cup { Keyed("supergraph", "RequestHeader", "request_header", HeaderKey, d) :
            d \in AttributeDefaults }
    \cup { Keyed("supergraph", "ResponseHeader", "response_header", HeaderKey, d) :
            d \in AttributeDefaults }
    \cup { Keyed("supergraph", "RequestContext", "request_context", ContextKey, d) :
            d \in AttributeDefaults }
    \cup { Keyed("supergraph", "ResponseContext", "response_context", ContextKey, d) :
            d \in AttributeDefaults }
    \cup { Keyed("supergraph", "Baggage", "baggage", BaggageKey, d) :
            d \in AttributeDefaults }
    \cup { Keyed("subgraph", "SubgraphQueryVariable",
            "subgraph_query_variable", VariableName, d) :
            d \in AttributeDefaults }
    \cup { Keyed("subgraph", "SubgraphResponseBody",
            "subgraph_response_body", BodyPath, d) :
            d \in AttributeDefaults }
    \cup { Keyed("subgraph", "SubgraphRequestHeader",
            "subgraph_request_header", HeaderKey, d) :
            d \in AttributeDefaults }
    \cup { Keyed("subgraph", "SubgraphResponseHeader",
            "subgraph_response_header", HeaderKey, d) :
            d \in AttributeDefaults }
    \cup { Keyed("subgraph", "SupergraphQueryVariable",
            "supergraph_query_variable", VariableName, d) :
            d \in AttributeDefaults }
    \cup { Keyed("subgraph", "SupergraphRequestHeader",
            "supergraph_request_header", HeaderKey, d) :
            d \in AttributeDefaults }
    \cup { Keyed("subgraph", "RequestContext", "request_context", ContextKey, d) :
            d \in AttributeDefaults }
    \cup { Keyed("subgraph", "ResponseContext", "response_context", ContextKey, d) :
            d \in AttributeDefaults }
    \cup { Keyed("subgraph", "Baggage", "baggage", BaggageKey, d) :
            d \in AttributeDefaults }

\* The variants whose default is an Option<String>.
TextSelectors ==
    { Keyed("router", "Env", "env", EnvName, d) : d \in StringDefaults }
    \cup { Keyed("supergraph", "OperationName", "operation_name", m, d) :
            m \in OperationNameModes, d \in StringDefaults }
    \cup { Keyed("supergraph", "Query", "query", "String", d) :
            d \in StringDefaults }
    \cup { Keyed("supergraph", "Env", "env", EnvName, d) : d \in StringDefaults }
    \cup { Keyed("subgraph", "SubgraphOperationName",
            "subgraph_operation_name", m, d) :
            m \in OperationNameModes, d \in StringDefaults }
    \cup { Keyed("subgraph", "SubgraphQuery", "subgraph_query", "String", d) :
            d \in StringDefaults }
    \cup { Keyed("subgraph", "SupergraphOperationName",
            "supergraph_operation_name", m, d) :
            m \in OperationNameModes, d \in StringDefaults }
    \cup { Keyed("subgraph", "SupergraphQuery", "supergraph_query", "String", d) :
            d \in StringDefaults }
    \cup { Keyed("subgraph", "Env", "env", EnvName, d) : d \in StringDefaults }

\* The variants that carry a mode and nothing else.
PlainSelectors ==
    { Plain("router", "ResponseStatus", "response_status", m) :
            m \in ResponseStatusModes }
    \cup { Plain("router", "TraceId", "trace_id", f) : f \in TraceIdFormats }
    \cup { Plain("supergraph", "OperationKind", "operation_kind", "String") }
    \cup { Plain("subgraph", "SubgraphOperationKind",
            "subgraph_operation_kind", "String") }
    \cup { Plain("subgraph", "SubgraphResponseStatus", "subgraph_response_status", m) :
            m \in ResponseStatusModes }
    \cup { Plain("subgraph", "SupergraphOperationKind",
            "supergraph_operation_kind", "String") }

\* ---------------------------------------------------------------------------
\* Loading a selector from configuration: #[derive(Deserialize)] with
\* #[serde(deny_unknown_fields, untagged)] on the three families.
\* ---------------------------------------------------------------------------
\* A struct variant as the derive sees it: its name, the field that names the
\* source and that field's type, how redact is declared ("skip" under
\* #[serde(skip)], "field" when it is read, "none" when there is none) and the
\* type of default ("none" when there is none).
VariantOf(variant, field, type, redact, default) ==
    [variant |-> variant, field |-> field, type |-> type,
     redact |-> redact, default |-> default]

\* The variants of RouterSelector, in declaration order.
RouterVariants ==
    << VariantOf("RequestHeader", "request_header", "String", "skip", "AttributeValue"),
       VariantOf("ResponseHeader", "response_header", "String", "skip", "AttributeValue"),
       VariantOf("ResponseStatus", "response_status", "ResponseStatus", "none", "none"),
       VariantOf("TraceId", "trace_id", "TraceIdFormat", "none", "none"),
       VariantOf("ResponseContext", "response_context", "String", "skip",
                 "AttributeValue"),
       VariantOf("Baggage", "baggage", "String", "skip", "AttributeValue"),
       VariantOf("Env", "env", "String", "skip", "String") >>

\* The variants of SupergraphSelector, in declaration order.
SupergraphVariants ==
    << VariantOf("OperationName", "operation_name", "OperationName", "skip", "String"),
       VariantOf("OperationKind", "operation_kind", "OperationKind", "none", "none"),
       VariantOf("Query", "query", "Query", "field", "String"),
       VariantOf("QueryVariable", "query_variable", "String", "skip", "AttributeValue"),
       VariantOf("RequestHeader", "request_header", "String", "skip", "AttributeValue"),
       VariantOf("ResponseHeader", "response_header", "String", "skip", "AttributeValue"),
       VariantOf("RequestContext", "request_context", "String", "skip",
                 "AttributeValue"),
       VariantOf("ResponseContext", "response_context", "String", "skip",
                 "AttributeValue"),
       VariantOf("Baggage", "baggage", "String", "skip", "AttributeValue"),
       VariantOf("Env", "env", "String", "skip", "String") >>

\* The variants of SubgraphSelector, in declaration order.
SubgraphVariants ==
    << VariantOf("SubgraphOperationName", "subgraph_operation_name", "OperationName",
                 "skip", "String"),
       VariantOf("SubgraphOperationKind", "subgraph_operation_kind", "OperationKind",
                 "none", "none"),
       VariantOf("SubgraphQuery", "subgraph_query", "Query", "field", "String"),
       VariantOf("SubgraphQueryVariable", "subgraph_query_variable", "String",
                 "skip", "AttributeValue"),
       VariantOf("SubgraphResponseBody", "subgraph_response_body", "JSONQuery",
                 "skip", "AttributeValue"),
       VariantOf("SubgraphRequestHeader", "subgraph_request_header", "String",
                 "skip", "AttributeValue"),
       VariantOf("SubgraphResponseHeader", "subgraph_response_header", "String",
                 "skip", "AttributeValue"),
       VariantOf("SubgraphResponseStatus", "subgraph_response_status", "ResponseStatus",
                 "none", "none"),
       VariantOf("SupergraphOperationName", "supergraph_operation_name",
                 "OperationName", "skip", "String"),
       VariantOf("SupergraphOperationKind", "supergraph_operation_kind",
                 "OperationKind", "none", "none"),
       VariantOf("SupergraphQuery", "supergraph_query", "Query", "field", "String"),
       VariantOf("SupergraphQueryVariable", "supergraph_query_variable", "String",
                 "skip", "AttributeValue"),
       VariantOf("SupergraphRequestHeader", "supergraph_request_header", "String",
                 "skip", "AttributeValue"),
       VariantOf("RequestContext", "request_context", "String", "skip",
                 "AttributeValue"),
       VariantOf("ResponseContext", "response_context", "String", "skip",
                 "AttributeValue"),
       VariantOf("Baggage", "baggage", "String", "skip", "AttributeValue"),
       VariantOf("Env", "env", "String", "skip", "String") >>

\* The variants of a family, had the three families shared one selector enum.
SelectorVariantsShared(family) ==
    RouterVariants \o SupergraphVariants \o SubgraphVariants

SelectorVariants(family) ==
    CASE family = "router"     -> RouterVariants
      [] family = "supergraph" -> SupergraphVariants
      [] family = "subgraph"   -> SubgraphVariants

\* The unit variants of the mode enums, had they been renamed to lowercase
\* without a separator between words.
UnitVariantsLowercase(type) ==
    CASE type = "TraceIdFormat" ->
             { << "opentelemetry", "OpenTelemetry" >>, << "datadog", "Datadog" >> }
      [] type = "OperationName" -> { << "string", "String" >>, << "hash", "Hash" >> }
      [] type = "Query" -> { << "string", "String" >> }
      [] type = "OperationKind" -> { << "string", "String" >> }
      [] type = "ResponseStatus" -> { << "code", "Code" >>, << "reason", "Reason" >> }
      [] OTHER -> { }

\* The unit variants of the mode enums under rename_all = "snake_case": the
\* name read from the input and the variant it stands for.
UnitVariants(type) ==
    CASE type = "TraceIdFormat" ->
             { << "open_telemetry", "OpenTelemetry" >>, << "datadog", "Datadog" >> }
      [] type = "OperationName" -> { << "string", "String" >>, << "hash", "Hash" >> }
      [] type = "Query" -> { << "string", "String" >> }
      [] type = "OperationKind" -> { << "string", "String" >> }
      [] type = "ResponseStatus" -> { << "code", "Code" >>, << "reason", "Reason" >> }
      [] OTHER -> { }

\* deserialize_json_query: the JSON path a string writes.
ParseJsonQuery(text) ==
    CASE text = "data.value" -> Ok(<< "data", "value" >>)
      [] text = "name"       -> Ok(<< "name" >>)
      [] OTHER               -> Err

\* The deserialization of a value of the given type.
DeserializeValue(type, j) ==
    CASE type = "String" -> StringFromJson(j)
      [] type = "AttributeValue" -> AttributeValueFromJson(j)
      [] type = "JSONQuery" ->
             IF Variant(j) = "string" THEN ParseJsonQuery(j.string) ELSE Err
      [] OTHER ->
             IF Variant(j) = "string" /\ \E u \in UnitVariants(type) : u[1] = j.string
             THEN Ok((CHOOSE u \in UnitVariants(type) : u[1] = j.string)[2])
             ELSE Err

\* An Option<T> field, had a value of another type been read as None.
DeserializeOptionDropping(type, input, field) ==
    IF field \notin DOMAIN input \/ Variant(input[field]) = "null" THEN Ok(None)
    ELSE LET r == DeserializeValue(type, input[field])
         IN  IF r.ok THEN Ok(Some(r.val)) ELSE Ok(None)

\* An Option<T> field: None when the field is missing or null.
DeserializeOption(type, input, field) ==
    IF field \notin DOMAIN input \/ Variant(input[field]) = "null" THEN Ok(None)
    ELSE LET r == DeserializeValue(type, input[field])
         IN  IF r.ok THEN Ok(Some(r.val)) ELSE Err

\* The names the derive reads, had it read redact where it is skipped.
KnownFieldsReadingSkipped(v) ==
    { v.field }
    \cup (IF v.default # "none" THEN { "default" } ELSE { })
    \cup (IF v.redact # "none" THEN { "redact" } ELSE { })

\* The names the derive reads for a variant: a field under #[serde(skip)] is
\* none of them.
KnownFields(v) ==
    { v.field }
    \cup (IF v.default # "none" THEN { "default" } ELSE { })
    \cup (IF v.redact = "field" THEN { "redact" } ELSE { })

\* A variant read from an input object, had its source field been optional:
\* without the field, the variant is read with an empty key.
DeserializeVariantOptionalKey(family, v, input) ==
    LET key == IF v.field \in DOMAIN input
               THEN DeserializeValue(v.type, input[v.field]) ELSE Ok("")
        default == IF v.default = "none" THEN Ok(None)
                   ELSE DeserializeOption(v.default, input, "default")
        redact == IF v.redact = "field"
                  THEN DeserializeOption("String", input, "redact") ELSE Ok(None)
    IN  IF DOMAIN input \subseteq KnownFields(v) /\ key.ok /\ default.ok /\ redact.ok
        THEN Ok(IF v.default = "none"
                THEN Plain(family, v.variant, v.field, key.val)
                ELSE (v.field :> key.val) @@
                     [family |-> family, variant |-> v.variant,
                      redact |-> redact.val, default |-> default.val])
        ELSE Err

\* A variant read from an input object, had the derive ignored the names it
\* does not know (no deny_unknown_fields).
DeserializeVariantLenient(family, v, input) ==
    LET key == IF v.field \in DOMAIN input
               THEN DeserializeValue(v.type, input[v.field]) ELSE Err
        default == IF v.default = "none" THEN Ok(None)
                   ELSE DeserializeOption(v.default, input, "default")
        redact == IF v.redact = "field"
                  THEN DeserializeOption("String", input, "redact") ELSE Ok(None)
    IN  IF key.ok /\ default.ok /\ redact.ok
        THEN Ok(IF v.default = "none"
                THEN Plain(family, v.variant, v.field, key.val)
                ELSE (v.field :> key.val) @@
                     [family |-> family, variant |-> v.variant,
                      redact |-> redact.val, default |-> default.val])
        ELSE Err

\* A variant read from an input object: every name of the input is one the
\* derive knows, the source field is there and of its type, and default and
\* redact, when read, are of theirs. A skipped redact is None.
DeserializeVariant(family, v, input) ==
    LET key == IF v.field \in DOMAIN input
               THEN DeserializeValue(v.type, input[v.field]) ELSE Err
        default == IF v.default = "none" THEN Ok(None)
                   ELSE DeserializeOption(v.default, input, "default")
        redact == IF v.redact = "field"
                  THEN DeserializeOption("String", input, "redact") ELSE Ok(None)
    IN  IF DOMAIN input \subseteq KnownFields(v) /\ key.ok /\ default.ok /\ redact.ok
        THEN Ok(IF v.default = "none"
                THEN Plain(family, v.variant, v.field, key.val)
                ELSE (v.field :> key.val) @@
                     [family |-> family, variant |-> v.variant,
                      redact |-> redact.val, default |-> default.val])
        ELSE Err

\* #[serde(untagged)]: the first variant, in declaration order, that the input
\* deserializes as; an error when there is none.
Deserialize(family, input) ==
    LET vs == SelectorVariants(family)
        matching == { i \in 1..Len(vs) : DeserializeVariant(family, vs[i], input).ok }
    IN  IF matching = { } THEN Err
        ELSE LET first == CHOOSE i \in matching : \A j \in matching : i <= j
             IN  DeserializeVariant(family, vs[first], input)

\* What the fake builders of the services build when nothing is set.
EmptyBody == [query |-> None, operation_name |-> None, variables |-> EmptyMap]
EmptyHttpRequest == [headers |-> << >>, body |-> EmptyBody]
EmptyRouterRequest == [headers |-> << >>]
EmptyHttpResponse == [headers |-> << >>, status |-> 200, body |-> JObject(<< >>)]

FakeRequest(family) ==
    CASE family = "router" ->
             [router_request |-> EmptyRouterRequest, context |-> EmptyMap]
      [] family = "supergraph" ->
             [supergraph_request |-> EmptyHttpRequest, context |-> EmptyMap]
      [] family = "subgraph" ->
             [supergraph_request |-> EmptyHttpRequest,
              subgraph_request |-> EmptyHttpRequest,
              operation_kind |-> "Query", context |-> EmptyMap]

FakeResponse(family) == [response |-> EmptyHttpResponse, context |-> EmptyMap]

\* The http requests of a family's request that carry a graphql body.
GraphqlRequests(family) ==
    CASE family = "router"     -> { }
      [] family = "supergraph" -> { "supergraph_request" }
      [] family = "subgraph"   -> { "supergraph_request", "subgraph_request" }

\* The http requests a request of a family carries.
HttpRequests(family) ==
    CASE family = "router"     -> { "router_request" }
      [] family = "supergraph" -> { "supergraph_request" }
      [] family = "subgraph"   -> { "supergraph_request", "subgraph_request" }

HeaderEntries ==
    { [name |-> HeaderKey, value |-> BytesHeaderValue],
      [name |-> HeaderKey, value |-> BytesNotText],
      [name |-> "other_header", value |-> BytesDefaulted] }

JsonValues ==
    { JString("value"), JNull,
      JObject(<< << "a", JArray(<< JNumber(1), JBool(TRUE) >>) >> >>) }

VariableEntries ==
    { << VariableName, j >> : j \in JsonValues } \cup { << "other", JString("value") >> }

ContextEntries ==
    { << OPERATION_NAME, JString("topProducts") >>, << OPERATION_NAME, JNumber(1) >>,
      << OPERATION_KIND, JString("query") >>,
      << ContextKey, JString("context_value") >>, << ContextKey, JNull >> }

Queries == { "query { topProducts { name } }" }
OperationNames == { "topProducts" }
OperationKinds == { "Query", "Mutation", "Subscription" }
StatusCodes == { 204, 299 }

ResponseBodies ==
    { JObject(<< << "data", JObject(<< << "value", JString("body_value") >> >>) >> >>),
      JObject(<< << "data", JObject(<< << "value", JArray(<< >>) >> >>) >> >>),
      JObject(<< << "data", JNull >> >>),
      JUnreadable }

EnvValues == { BytesEnvValue, << >>, BytesNotText }

BaggageEntries ==
    { << BaggageKey, [String |-> "baggage_value"] >>,
      << BaggageKey, [I64 |-> 7] >>,
      << ContextKey, [String |-> "baggage_value"] >> }

\* Trace identifiers: zero, 42 and one that uses the high limbs.
TraceIds ==
    { TraceIdInvalid, U128Of(42), << 65535, 4660, 0, 43981, 61185, 1, 256, 10 >> }
SpanIds == { 0, 42 }
SpanContexts == [trace_id : TraceIds, span_id : SpanIds]

\* The input objects of the model: the families, the field names an object of
\* a family may carry and the values a field may hold.
Families == { "router", "supergraph", "subgraph" }

\* The number of source fields an input object may carry.
MaxConfigFields == 2

\* The fields that name the source of a variant of the family.
SourceFieldsOf ==
    [family \in Families |->
        { SelectorVariants(family)[i].field : i \in 1..Len(SelectorVariants(family)) }]

SourceFields(family) == SourceFieldsOf[family]

\* The variants of the three selector enums, and the source fields of the
\* other families that the family does not declare, each once.
AllVariants == RouterVariants \o SupergraphVariants \o SubgraphVariants

ForeignFieldOrders ==
    [family \in Families |->
        LET foreign(i) ==
                /\ AllVariants[i].field \notin SourceFields(family)
                /\ \A j \in 1..(i - 1) : AllVariants[j].field # AllVariants[i].field
            kept == SelectSeq([i \in 1..Len(AllVariants) |-> i], foreign)
        IN  [k \in 1..Len(kept) |-> AllVariants[kept[k]].field]]

ForeignFieldOrder(family) == ForeignFieldOrders[family]

ForeignFieldsOf ==
    [family \in Families |->
        { ForeignFieldOrder(family)[i] : i \in 1..Len(ForeignFieldOrder(family)) }]

ForeignFields(family) == ForeignFieldsOf[family]

\* The fields an input object of the family may carry, in the order the model
\* writes them: the source fields as the family declares them, the source
\* fields of the other families, then the others.
ConfigFieldOrder(family) ==
    [i \in 1..Len(SelectorVariants(family)) |-> SelectorVariants(family)[i].field]
    \o ForeignFieldOrder(family)
    \o << "default", "redact", "unknown_field" >>

ConfigFieldsOf ==
    [family \in Families |->
        { ConfigFieldOrder(family)[i] : i \in 1..Len(ConfigFieldOrder(family)) }]

ConfigFields(family) == ConfigFieldsOf[family]

\* The place of each field in that order, tabulated.
FieldRanks ==
    [family \in Families |->
        LET order == ConfigFieldOrder(family)
        IN  [field \in { order[i] : i \in 1..Len(order) } |->
                CHOOSE i \in 1..Len(order) : order[i] = field]]

FieldRank(family, field) == FieldRanks[family][field]

\* The keywords the model writes for a mode: the names of its variants, with
\* and without the underscore between words, and a keyword of another mode.
Keywords(type) ==
    CASE type = "TraceIdFormat" ->
             { "opentelemetry", "open_telemetry", "datadog", "string" }
      [] type = "OperationName" -> { "string", "hash", "code" }
      [] type = "OperationKind" -> { "string", "hash" }
      [] type = "Query" -> { "string", "hash" }
      [] type = "ResponseStatus" -> { "code", "reason", "string" }

\* The values the model writes under a field: a keyword under the source field
\* of a variant that carries a mode, a name or a path under the others, text, a
\* number or null as the default, text as the redaction pattern. Under a source
\* field of another family it writes one value that the other family accepts.
ConfigValuesOf(family, field) ==
    IF field = "default" THEN { JString("defaulted"), JNumber(1), JNull }
    ELSE IF field = "redact" THEN { JString("pattern") }
    ELSE IF field = "unknown_field" THEN { JNull }
    ELSE LET v == AllVariants[CHOOSE i \in 1..Len(AllVariants) :
                                  AllVariants[i].field = field]
         IN  IF field \in ForeignFields(family)
             THEN IF v.type = "TraceIdFormat" THEN { JString("datadog") }
                  ELSE IF v.type = "ResponseStatus" THEN { JString("code") }
                  ELSE IF UnitVariants(v.type) # { } THEN { JString("string") }
                  ELSE IF v.type = "JSONQuery" THEN { JString("data.value") }
                  ELSE { JString("name") }
             ELSE IF UnitVariants(v.type) # { }
             THEN { JString(k) : k \in Keywords(v.type) }
             ELSE IF v.type = "JSONQuery" THEN { JString("data.value") }
             ELSE { JString("name") }

ConfigValuesTable ==
    [family \in Families |->
        [field \in ConfigFields(family) |-> ConfigValuesOf(family, field)]]

ConfigValues(family, field) == ConfigValuesTable[family][field]

\* ---------------------------------------------------------------------------
\* The state machine: a request and a response are built, the ambient state
\* changes, and the selector is evaluated on them.
\* ---------------------------------------------------------------------------
\* No input object has been loaded.
NotLoaded == [done |-> FALSE, result |-> Err]

CanSet == built < MaxFields

Init ==
    /\ \/ selector \in AttributeSelectors
       \/ selector \in TextSelectors
       \/ selector \in PlainSelectors
    /\ request = FakeRequest(selector.family)
    /\ response = FakeResponse(selector.family)
    /\ env = EmptyMap
    /\ active = [span |-> None, baggage |-> EmptyMap]
    /\ result = None
    /\ phase = "none"
    /\ built = 0
    /\ config = [family |-> selector.family, input |-> EmptyMap]
    /\ loaded = NotLoaded
    /\ history = << >>
    /\ executions = << >>

\* A call that sets the scene: what was evaluated before is no longer current.
Set == built' = built + 1 /\ result' = None /\ phase' = "none"

\* fake_builder().header(name, value)
RequestHeader(target, e) ==
    /\ CanSet
    /\ request' = [request EXCEPT ![target].headers = Append(@, e)]
    /\ Set
    /\ UNCHANGED << selector, response, env, active, config, loaded, history,
                    executions >>

\* graphql::Request::fake_builder().query(q)
RequestQuery(target, q) ==
    /\ CanSet
    /\ request' = [request EXCEPT ![target].body.query = Some(q)]
    /\ Set
    /\ UNCHANGED << selector, response, env, active, config, loaded, history,
                    executions >>

\* graphql::Request::fake_builder().operation_name(n)
RequestOperationName(target, n) ==
    /\ CanSet
    /\ request' = [request EXCEPT ![target].body.operation_name = Some(n)]
    /\ Set
    /\ UNCHANGED << selector, response, env, active, config, loaded, history,
                    executions >>

\* fake_builder().variable(name, value)
RequestVariable(target, e) ==
    /\ CanSet
    /\ request' = [request EXCEPT ![target].body.variables = MapInsert(@, e[1], e[2])]
    /\ Set
    /\ UNCHANGED << selector, response, env, active, config, loaded, history,
                    executions >>

\* context.insert(key, value) on the request's context
RequestContextInsert(e) ==
    /\ CanSet
    /\ request' = [request EXCEPT !.context = MapInsert(@, e[1], e[2])]
    /\ Set
    /\ UNCHANGED << selector, response, env, active, config, loaded, history,
                    executions >>

\* SubgraphRequest::fake_builder().operation_kind(kind)
RequestOperationKind(kind) ==
    /\ CanSet
    /\ selector.family = "subgraph"
    /\ request' = [request EXCEPT !.operation_kind = kind]
    /\ Set
    /\ UNCHANGED << selector, response, env, active, config, loaded, history,
                    executions >>

ResponseHeader(e) ==
    /\ CanSet
    /\ response' = [response EXCEPT !.response.headers = Append(@, e)]
    /\ Set
    /\ UNCHANGED << selector, request, env, active, config, loaded, history,
                    executions >>

\* fake_builder().status_code(code)
ResponseStatusCode(code) ==
    /\ CanSet
    /\ response' = [response EXCEPT !.response.status = code]
    /\ Set
    /\ UNCHANGED << selector, request, env, active, config, loaded, history,
                    executions >>

ResponseContextInsert(e) ==
    /\ CanSet
    /\ response' = [response EXCEPT !.context = MapInsert(@, e[1], e[2])]
    /\ Set
    /\ UNCHANGED << selector, request, env, active, config, loaded, history,
                    executions >>

\* The body of a subgraph response.
ResponseBody(b) ==
    /\ CanSet
    /\ selector.family = "subgraph"
    /\ response' = [response EXCEPT !.response.body = b]
    /\ Set
    /\ UNCHANGED << selector, request, env, active, config, loaded, history,
                    executions >>

\* std::env::set_var(name, value)
SetVar(name, value) ==
    /\ CanSet
    /\ env' = MapInsert(env, name, value)
    /\ Set
    /\ UNCHANGED << selector, request, response, active, config, loaded, history,
                    executions >>

\* std::env::remove_var(name)
RemoveVar(name) ==
    /\ CanSet
    /\ name \in DOMAIN env
    /\ env' = MapRemove(env, name)
    /\ Set
    /\ UNCHANGED << selector, request, response, active, config, loaded, history,
                    executions >>

\* context.with_baggage(vec![KeyValue::new(key, value)]).attach()
AttachBaggage(e) ==
    /\ CanSet
    /\ active' = [active EXCEPT !.baggage = MapInsert(@, e[1], e[2])]
    /\ Set
    /\ UNCHANGED << selector, request, response, env, config, loaded, history,
                    executions >>

\* Context::current().with_remote_span_context(span_context).attach()
AttachSpanContext(sc) ==
    /\ CanSet
    /\ active' = [active EXCEPT !.span = Some(sc)]
    /\ Set
    /\ UNCHANGED << selector, request, response, env, config, loaded, history,
                    executions >>

\* on_request, had it taken the entries out of the request's context map
\* instead of reading them.
OnRequestTaking ==
    /\ result' = OnRequestValue(selector, request)
    /\ phase' = "request"
    /\ request' = [request EXCEPT !.context = EmptyMap]
    /\ UNCHANGED << selector, response, env, active, built, config, loaded, history,
                    executions >>

\* selector.on_request(&request)
OnRequest ==
    /\ result' = OnRequestValue(selector, request)
    /\ phase' = "request"
    /\ UNCHANGED << selector, request, response, env, active, built, config, loaded,
                    history, executions >>

\* selector.on_response(&response)
OnResponse ==
    /\ result' = OnResponseValue(selector, response)
    /\ phase' = "response"
    /\ UNCHANGED << selector, request, response, env, active, built, config, loaded,
                    history, executions >>

Next ==
    \/ \E target \in HttpRequests(selector.family), e \in HeaderEntries :
           RequestHeader(target, e)
    \/ \E target \in GraphqlRequests(selector.family), q \in Queries :
           RequestQuery(target, q)
    \/ \E target \in GraphqlRequests(selector.family), n \in OperationNames :
           RequestOperationName(target, n)
    \/ \E target \in GraphqlRequests(selector.family), e \in VariableEntries :
           RequestVariable(target, e)
    \/ \E e \in ContextEntries : RequestContextInsert(e)
    \/ \E kind \in OperationKinds : RequestOperationKind(kind)
    \/ \E e \in HeaderEntries : ResponseHeader(e)
    \/ \E code \in StatusCodes : ResponseStatusCode(code)
    \/ \E e \in ContextEntries : ResponseContextInsert(e)
    \/ \E b \in ResponseBodies : ResponseBody(b)
    \/ \E value \in EnvValues : SetVar(EnvName, value)
    \/ RemoveVar(EnvName)
    \/ \E e \in BaggageEntries : AttachBaggage(e)
    \/ \E sc \in SpanContexts : AttachSpanContext(sc)
    \/ OnRequest
    \/ OnResponse

Spec == Init /\ [][Next]_vars

\* ---------------------------------------------------------------------------
\* The state machine of loading: an input object of a family is written field
\* by field and loaded.
\* ---------------------------------------------------------------------------
InitConfig ==
    /\ selector = Plain("router", "TraceId", "trace_id", "OpenTelemetry")
    /\ request = FakeRequest(selector.family)
    /\ response = FakeResponse(selector.family)
    /\ env = EmptyMap
    /\ active = [span |-> None, baggage |-> EmptyMap]
    /\ result = None
    /\ phase = "none"
    /\ built = 0
    /\ config \in [family : Families, input : { EmptyMap }]
    /\ loaded = NotLoaded
    /\ history = << >>
    /\ executions = << >>

\* A field of the input object is written, after the fields that come before it
\* in the order of writing; what was loaded is no longer current.
ConfigInsert(field, value) ==
    /\ \A present \in DOMAIN config.input :
           FieldRank(config.family, present) < FieldRank(config.family, field)
    /\ field \in SourceFields(config.family) \cup ForeignFields(config.family) =>
           Cardinality(DOMAIN config.input
                           \cap (SourceFields(config.family)
                                     \cup ForeignFields(config.family)))
               < MaxConfigFields
    /\ config' = [config EXCEPT !.input = MapInsert(@, field, value)]
    /\ loaded' = NotLoaded
    /\ UNCHANGED << selector, request, response, env, active, result, phase, built,
                    history, executions >>

\* The input object is deserialized as a selector of its family.
Load ==
    /\ ~loaded.done
    /\ loaded' = [done |-> TRUE, result |-> Deserialize(config.family, config.input)]
    /\ UNCHANGED << selector, request, response, env, active, result, phase, built,
                    config, history, executions >>

NextConfig ==
    \/ \E field \in ConfigFields(config.family) :
           \E value \in ConfigValues(config.family, field) : ConfigInsert(field, value)
    \/ Load

SpecConfig == InitConfig /\ [][NextConfig]_vars

\* ---------------------------------------------------------------------------
\* The state machine of a run: one selector is evaluated again and again while
\* the environment, the baggage and the context map change in between, and
\* every evaluation is kept with the scene it saw.
\* ---------------------------------------------------------------------------
\* The number of evaluations of a run.
MaxEvaluations == 3

\* The selectors of a run: the selectors that read what changes between the
\* evaluations, the baggage, context and header ones under one and the same key.
RunTextSelectors ==
    { Keyed(family, "Env", "env", EnvName, d) :
            family \in Families, d \in StringDefaults }

RunAttributeSelectors ==
    { Keyed("router", "RequestHeader", "request_header", ContextKey, d) :
            d \in AttributeDefaults }
    \cup { Keyed("supergraph", "RequestHeader", "request_header", ContextKey, d) :
            d \in AttributeDefaults }
    \cup { Keyed("subgraph", "SubgraphRequestHeader",
            "subgraph_request_header", ContextKey, d) :
            d \in AttributeDefaults }
    \cup { Keyed("subgraph", "SupergraphRequestHeader",
            "supergraph_request_header", ContextKey, d) :
            d \in AttributeDefaults }
    \cup
    { Keyed("router", "Baggage", "baggage", ContextKey, d) : d \in AttributeDefaults }
    \cup { Keyed("supergraph", "Baggage", "baggage", ContextKey, d) :
            d \in AttributeDefaults }
    \cup { Keyed("subgraph", "Baggage", "baggage", ContextKey, d) :
            d \in AttributeDefaults }
    \cup { Keyed("supergraph", "RequestContext", "request_context", ContextKey, d) :
            d \in AttributeDefaults }
    \cup { Keyed("subgraph", "RequestContext", "request_context", ContextKey, d) :
            d \in AttributeDefaults }

\* What changes between the evaluations of a run.
RunEnvValues == { BytesEnvValue, BytesNotText }
RunBaggageEntries == { << ContextKey, [String |-> "baggage_value"] >> }
RunContextEntries == { << ContextKey, JString("context_value") >> }
RunHeaderEntries == { [name |-> ContextKey, value |-> BytesHeaderValue] }

\* What an evaluation can read.
Scene == [request |-> request, response |-> response, env |-> env, active |-> active]

InitHistory ==
    /\ \/ selector \in RunAttributeSelectors
       \/ selector \in RunTextSelectors
    /\ request = FakeRequest(selector.family)
    /\ response = FakeResponse(selector.family)
    /\ env = EmptyMap
    /\ active = [span |-> None, baggage |-> EmptyMap]
    /\ result = None
    /\ phase = "none"
    /\ built = 0
    /\ config = [family |-> selector.family, input |-> EmptyMap]
    /\ loaded = NotLoaded
    /\ history = << >>
    /\ executions = << >>

\* selector.on_request(&request), kept in the history of the run.
EvaluateRequest ==
    /\ Len(history) < MaxEvaluations
    /\ result' = OnRequestValue(selector, request)
    /\ phase' = "request"
    /\ history' = Append(history,
                         [phase |-> "request", scene |-> Scene, result |-> result'])
    /\ UNCHANGED << selector, request, response, env, active, built, config, loaded,
                    executions >>

\* selector.on_response(&response), kept in the history of the run.
EvaluateResponse ==
    /\ Len(history) < MaxEvaluations
    /\ result' = OnResponseValue(selector, response)
    /\ phase' = "response"
    /\ history' = Append(history,
                         [phase |-> "response", scene |-> Scene, result |-> result'])
    /\ UNCHANGED << selector, request, response, env, active, built, config, loaded,
                    executions >>

NextHistory ==
    \/ \E value \in RunEnvValues : SetVar(EnvName, value)
    \/ RemoveVar(EnvName)
    \/ \E e \in RunBaggageEntries : AttachBaggage(e)
    \/ \E e \in RunContextEntries : RequestContextInsert(e)
    \/ \E target \in HttpRequests(selector.family), e \in RunHeaderEntries :
           RequestHeader(target, e)
    \/ EvaluateRequest
    \/ EvaluateResponse

SpecHistory == InitHistory /\ [][NextHistory]_vars

\* ---------------------------------------------------------------------------
\* The state machine of concurrent evaluation: pipeline executions, each on
\* its own thread with its own request, response and attached context, evaluate
\* the one selector. A thread's steps interleave with the other threads'.
\* ---------------------------------------------------------------------------
\* The number of executions that evaluate the selector at once.
MaxExecutions == 2

ConcurrentSelectors ==
    RunAttributeSelectors
    \cup { Plain("router", "TraceId", "trace_id", f) : f \in TraceIdFormats }

\* The requests of the executions: a fake request, bare or with a header and a
\* context entry under the key.
ConcurrentHeader == [name |-> ContextKey, value |-> BytesHeaderValue]

ConcurrentRequests(family) ==
    LET fake == FakeRequest(family)
        keyed == [fake EXCEPT !.context = MapInsert(@, ContextKey, JString("context_value"))]
    IN  { fake,
          CASE family = "router" ->
                   [keyed EXCEPT !.router_request.headers = Append(@, ConcurrentHeader)]
            [] family = "supergraph" ->
                   [keyed EXCEPT !.supergraph_request.headers =
                                     Append(@, ConcurrentHeader)]
            [] family = "subgraph" ->
                   [keyed EXCEPT !.supergraph_request.headers =
                                     Append(@, ConcurrentHeader),
                                 !.subgraph_request.headers =
                                     Append(@, ConcurrentHeader)] }

\* The contexts attached on the executions' threads: none, and one with a
\* remote span context and a baggage entry under the key.
ConcurrentContexts ==
    { [span |-> None, baggage |-> EmptyMap],
      [span |-> Some([trace_id |-> U128Of(42), span_id |-> 42]),
       baggage |-> MapInsert(EmptyMap, ContextKey, [String |-> "baggage_value"])] }

InitConcurrent ==
    /\ \/ selector \in ConcurrentSelectors
       \/ selector \in RunTextSelectors
    /\ request = FakeRequest(selector.family)
    /\ response = FakeResponse(selector.family)
    /\ \/ env = EmptyMap
       \/ env = MapInsert(EmptyMap, EnvName, BytesEnvValue)
    /\ active = [span |-> None, baggage |-> EmptyMap]
    /\ result = None
    /\ phase = "none"
    /\ built = 0
    /\ config = [family |-> selector.family, input |-> EmptyMap]
    /\ loaded = NotLoaded
    /\ history = << >>
    /\ executions = << >>

\* A pipeline execution reaches the selector on a thread of its own, with its
\* request or response and the context attached on that thread.
Spawn(req, ctx, stage) ==
    /\ Len(executions) < MaxExecutions
    /\ executions' = Append(executions,
                            [request |-> req, response |-> FakeResponse(selector.family),
                             active |-> ctx, phase |-> stage, pc |-> "called",
                             value |-> None, result |-> None])
    /\ UNCHANGED << selector, request, response, env, active, result, phase, built,
                    config, loaded, history >>

\* The thread of execution i runs: Context::current() is that thread's context.
Switch(i) ==
    /\ active # executions[i].active
    /\ active' = executions[i].active
    /\ UNCHANGED << selector, request, response, env, result, phase, built, config,
                    loaded, history, executions >>

\* Context::current(), had the current context been one for the whole process:
\* an execution reads whichever context was attached last.
CurrentOfProcess(i) == i \in 1..Len(executions)

\* Context::current() is thread-local: what an execution reads as the current
\* context is the context attached on its own thread.
Current(i) == active = executions[i].active

\* Execution i runs the body of on_request or on_response, on its own request
\* or response.
Evaluate(i) ==
    /\ executions[i].pc = "called"
    /\ Current(i)
    /\ executions' =
           [executions EXCEPT
               ![i].pc = "evaluated",
               ![i].value = IF executions[i].phase = "request"
                            THEN OnRequestValue(selector, executions[i].request)
                            ELSE OnResponseValue(selector, executions[i].response)]
    /\ UNCHANGED << selector, request, response, env, active, result, phase, built,
                    config, loaded, history >>

\* Execution i returns the value to its caller.
Return(i) ==
    /\ executions[i].pc = "evaluated"
    /\ executions' = [executions EXCEPT ![i].pc = "returned",
                                        ![i].result = executions[i].value]
    /\ UNCHANGED << selector, request, response, env, active, result, phase, built,
                    config, loaded, history >>

NextConcurrent ==
    \/ \E req \in ConcurrentRequests(selector.family), ctx \in ConcurrentContexts,
          stage \in { "request", "response" } : Spawn(req, ctx, stage)
    \/ \E i \in 1..Len(executions) : Switch(i)
    \/ \E i \in 1..Len(executions) : Evaluate(i)
    \/ \E i \in 1..Len(executions) : Return(i)

SpecConcurrent == InitConcurrent /\ [][NextConcurrent]_vars

\* ---------------------------------------------------------------------------
\* What the claims speak of
\* ---------------------------------------------------------------------------
OperationNameVariants ==
    { "OperationName", "SubgraphOperationName", "SupergraphOperationName" }
QueryVariableVariants ==
    { "QueryVariable", "SubgraphQueryVariable", "SupergraphQueryVariable" }
StatusVariants == { "ResponseStatus", "SubgraphResponseStatus" }

\* The selectors valid only at response time, and those valid only at request time.
ResponseOnlyVariants ==
    { "ResponseHeader", "ResponseStatus", "ResponseContext",
      "SubgraphResponseHeader", "SubgraphResponseStatus", "SubgraphResponseBody" }
RequestOnlyVariants ==
    { "RequestHeader", "RequestContext", "OperationName", "OperationKind", "Query",
      "QueryVariable", "SubgraphOperationName", "SupergraphOperationName",
      "SubgraphOperationKind", "SupergraphOperationKind", "SubgraphQuery",
      "SupergraphQuery", "SubgraphQueryVariable", "SupergraphQueryVariable",
      "SubgraphRequestHeader", "SupergraphRequestHeader" }
\* The selectors that read the ambient state.
AmbientVariants == { "Env", "TraceId", "Baggage" }

\* The field that names the source of a selector: every field but these.
SourceField(self) ==
    CHOOSE f \in DOMAIN self : f \notin { "family", "variant", "redact", "default" }
SourceKey(self) == self[SourceField(self)]

IsHashMode(self) ==
    self.variant \in OperationNameVariants /\ SourceKey(self) = "Hash"

\* The phases at which the code gives a selector a meaning.
MeaningfulAt(self, p) ==
    \/ p = "response" /\ self.variant \in ResponseOnlyVariants
    \/ p = "request" /\ self.variant \in RequestOnlyVariants \cup AmbientVariants
    \/ p = "response" /\ self.family = "router" /\ self.variant = "Baggage"

\* The http request a request-time selector reads.
SourceRequest(self) ==
    CASE self.family = "router" -> request.router_request
      [] self.family = "supergraph" -> request.supergraph_request
      [] self.variant \in { "SubgraphOperationName", "SubgraphQuery",
                            "SubgraphQueryVariable", "SubgraphRequestHeader" } ->
             request.subgraph_request
      [] OTHER -> request.supergraph_request

\* The operation name an operation-name selector reads, as an Option<String>.
OperationNameSource(self) ==
    IF self.variant = "SubgraphOperationName"
    THEN request.subgraph_request.body.operation_name
    ELSE IF OPERATION_NAME \in DOMAIN request.context
              /\ Variant(request.context[OPERATION_NAME]) = "string"
         THEN Some(request.context[OPERATION_NAME].string)
         ELSE None

\* What the source of a selector holds in the current state, as the attribute
\* it stands for; None when the source has nothing to give.
SourceValue(self, p) ==
    LET v == self.variant
        context == IF p = "request" THEN request.context ELSE response.context
    IN  CASE v \in { "RequestHeader", "SubgraphRequestHeader",
                     "SupergraphRequestHeader" } ->
                 HeaderAttribute(SourceRequest(self).headers, SourceKey(self))
          [] v \in { "ResponseHeader", "SubgraphResponseHeader" } ->
                 HeaderAttribute(response.response.headers, SourceKey(self))
          [] v \in { "RequestContext", "ResponseContext" } ->
                 Flatten(ResultOk(ContextGet(context, SourceKey(self))))
          [] v \in { "OperationKind", "SupergraphOperationKind" } ->
                 Flatten(ResultOk(ContextGet(context, OPERATION_KIND)))
          [] v = "SubgraphOperationKind" ->
                 Some(String(OperationKindToString(request.operation_kind)))
          [] v \in OperationNameVariants -> OptMap(OperationNameSource(self), String)
          [] v \in { "Query", "SubgraphQuery", "SupergraphQuery" } ->
                 OptMap(SourceRequest(self).body.query, String)
          [] v \in QueryVariableVariants ->
                 OptMap(OptMap(MapGet(SourceRequest(self).body.variables,
                                      SourceKey(self)), ToJsonString), String)
          [] v \in StatusVariants ->
                 StatusAttribute(SourceKey(self), response.response.status)
          [] v = "SubgraphResponseBody" ->
                 LET r == JsonQueryExecute(SourceKey(self), response.response.body)
                 IN  IF r.ok /\ IsSome(r.val)
                     THEN ResultOk(AttributeValueFromJson(Unwrap(r.val)))
                     ELSE None
          [] v = "Env" ->
                 IF SourceKey(self) \in DOMAIN env /\ AllAscii(env[SourceKey(self)])
                 THEN Some(String(StrOfAscii(env[SourceKey(self)])))
                 ELSE None
          [] v = "Baggage" ->
                 OptMap(MapGet(active.baggage, SourceKey(self)),
                        AttributeValueFromBaggage)
          [] v = "TraceId" -> TraceIdAttribute(SourceKey(self))

\* The configured default of a selector as the attribute it stands for.
TextDefaultVariants ==
    OperationNameVariants \cup { "Query", "SubgraphQuery", "SupergraphQuery", "Env" }

DefaultValue(self) ==
    IF "default" \notin DOMAIN self THEN None
    ELSE IF self.variant \in TextDefaultVariants THEN OptMap(self.default, String)
    ELSE self.default

\* The digests the tests of the operation-name selectors expect.
TestDigest(s) ==
    CASE s = "topProducts" ->
             "bd141fca26094be97c30afd42e9fc84755b252e7052d8c992358319246bd555a"
      [] s = "defaulted" ->
             "96294f50edb8f006f6b0a2dadae50d3c521e9841d07d6395d91060c8ccfed7f0"

DigestAttribute(a) == String(TestDigest(a.String))

\* The output form of a selector: the digest in hash mode, the value otherwise.
Shaped(self, o) == IF IsHashMode(self) THEN OptMap(o, DigestAttribute) ELSE o

\* ---------------------------------------------------------------------------
\* C1. For every selector evaluated at a phase it is meaningful for: when the
\* source lookup yields a value the result reflects it, when the source is
\* absent and a default is configured the result equals the default, and when
\* the source is absent and no default is configured the result is absent.
\* (In hash mode the value and the default are read through the digest.)
\* ---------------------------------------------------------------------------
C1_SourceThenDefault ==
    (phase # "none" /\ MeaningfulAt(selector, phase)) =>
        LET src == SourceValue(selector, phase)
        IN  result = Shaped(selector,
                            IF IsSome(src) THEN src ELSE DefaultValue(selector))

\* ---------------------------------------------------------------------------
\* C2. Phase exclusivity: a selector valid only at response time returns
\* absent from on_request and a selector valid only at request time returns
\* absent from on_response, whatever the request or response carries and
\* whatever default is configured.
\* ---------------------------------------------------------------------------
C2_PhaseExclusive ==
    /\ (phase = "request" /\ selector.variant \in ResponseOnlyVariants)
           => result = None
    /\ (phase = "response" /\ selector.variant \in RequestOnlyVariants)
           => result = None

\* A response-header selector with a default, evaluated on a request that
\* carries the header it names.
C2_Witness ==
    /\ phase = "request"
    /\ selector.variant \in { "ResponseHeader", "SubgraphResponseHeader" }
    /\ IsSome(selector.default)
    /\ \E target \in HttpRequests(selector.family) :
           IsSome(HeaderAttribute(request[target].headers, SourceKey(selector)))
    /\ result = None

\* ---------------------------------------------------------------------------
\* C3. The subgraph response-body selector on a response: an evaluator error,
\* a path that matches nothing and a match that does not convert to an
\* attribute value each fall back to the configured default.
\* ---------------------------------------------------------------------------
C3_BodyFallsBackToDefault ==
    (phase = "response" /\ selector.variant = "SubgraphResponseBody") =>
        LET r == JsonQueryExecute(selector.subgraph_response_body,
                                  response.response.body)
            unusable == \/ ~r.ok
                        \/ r.val = None
                        \/ ~AttributeValueFromJson(Unwrap(r.val)).ok
        IN  unusable => result = selector.default

\* The same selector in string mode.
StringMode(self) == [self EXCEPT ![SourceField(self)] = "String"]

\* ---------------------------------------------------------------------------
\* C4. An operation-name selector in hash mode yields the lowercase
\* hexadecimal SHA-256 digest, 64 characters long, of the string the same
\* selector yields in string mode on the same request: of the operation name
\* if there is one, else of the default; with neither, it yields nothing.
\* ---------------------------------------------------------------------------
C4_HashOfStringModeOutput ==
    (phase = "request" /\ IsHashMode(selector)) =>
        LET plain == OnRequestValue(StringMode(selector), request)
            raw == OrElse(OperationNameSource(selector), selector.default)
        IN  /\ plain = OptMap(raw, String)
            /\ result = OptMap(plain, DigestAttribute)
            /\ IsSome(result) =>
                   /\ Len(Unwrap(result).String) = 64
                   /\ Unwrap(result).String = DigestOf[AsBytes(Unwrap(raw))]
            /\ raw = None => result = None

\* Hash mode, no operation name, a default: the digest of the default.
C4_Witness ==
    /\ phase = "request"
    /\ IsHashMode(selector)
    /\ OperationNameSource(selector) = None
    /\ selector.default = Some("defaulted")
    /\ result = Some(String(TestDigest("defaulted")))

\* ---------------------------------------------------------------------------
\* C5. The router trace_id selector on a request yields a value exactly when
\* a span context is active and valid (neither its trace identifier nor its
\* span identifier is the invalid one), in both formats.
\* ---------------------------------------------------------------------------
C5_TraceIdOnlyWhenValid ==
    (phase = "request" /\ selector.variant = "TraceId") =>
        (IsSome(result) <=>
            /\ IsSome(active.span)
            /\ Unwrap(active.span).trace_id # TraceIdInvalid
            /\ Unwrap(active.span).span_id # 0)

\* An active span context with a trace identifier and no span identifier.
C5_Witness ==
    /\ phase = "request"
    /\ selector.variant = "TraceId"
    /\ IsSome(active.span)
    /\ Unwrap(active.span).trace_id = U128Of(42)
    /\ Unwrap(active.span).span_id = 0
    /\ result = None

TraceIdSelector(format) == Plain("router", "TraceId", "trace_id", format)

\* The 128-bit integer, as limbs, that a sequence of hexadecimal digits writes.
ValueOfDigits(ds) ==
    [i \in 1..(Len(ds) \div 4) |->
        ((ds[(4 * i) - 3] * 4096) + (ds[(4 * i) - 2] * 256))
            + ((ds[(4 * i) - 1] * 16) + ds[4 * i])]

\* The trace identifiers of the model, written out.
TraceIdText(T) ==
    CASE T = U128Of(42) -> "0000000000000000000000000000002a"
      [] T = << 65535, 4660, 0, 43981, 61185, 1, 256, 10 >> ->
             "ffff12340000abcdef0100010100000a"

C7_StatusCode ==
    (/\ phase = "response"
     /\ selector.variant \in StatusVariants
     /\ SourceKey(selector) = "Code") =>
        /\ result = Some(I64(response.response.status))
        /\ Unwrap(result).I64 >= 0
        /\ response.response.status = 204 => result = Some([I64 |-> 204])

C7_Witness ==
    /\ phase = "response"
    /\ selector.variant \in StatusVariants
    /\ SourceKey(selector) = "Code"
    /\ response.response.status = 204
    /\ result = Some([I64 |-> 204])

\* ---------------------------------------------------------------------------
\* C8. The status selector in Reason mode, on a response, yields the canonical
\* reason phrase of the status code as a String when the code has one (204
\* yields "No Content") and nothing when it has none; the status variants
\* carry no default, so none is substituted.
\* ---------------------------------------------------------------------------
C8_StatusReason ==
    (/\ phase = "response"
     /\ selector.variant \in StatusVariants
     /\ SourceKey(selector) = "Reason") =>
        LET code == response.response.status
            reasons == { e \in CanonicalReasons : e[1] = code }
        IN  /\ "default" \notin DOMAIN selector
            /\ reasons # { } => \E e \in reasons : result = Some(String(e[2]))
            /\ reasons = { } => result = None
            /\ code = 204 => result = Some(String("No Content"))
            /\ code = 200 => result = Some(String("OK"))
            /\ code = 299 => result = None

\* A status code that has no canonical reason.
C8_Witness ==
    /\ phase = "response"
    /\ selector.variant \in StatusVariants
    /\ SourceKey(selector) = "Reason"
    /\ response.response.status = 299
    /\ result = None

\* The JSON texts of the values the model binds variables to.
JsonText(j) ==
    CASE j = JString("value") -> "\"value\""
      [] j = JNull -> "null"
      [] j = JObject(<< << "a", JArray(<< JNumber(1), JBool(TRUE) >>) >> >>) ->
             "{\"a\":[1,true]}"

\* A query-variable selector yields the JSON text of the bound value when the
\* named variable is in the variable map, whatever the value, and the
\* configured default otherwise; the text of the scalar "value" has the given
\* number of characters.
QueryVariableSerialized(length) ==
    (phase = "request" /\ selector.variant \in QueryVariableVariants) =>
        LET variables == SourceRequest(selector).body.variables
            name == SourceKey(selector)
        IN  IF name \in DOMAIN variables
            THEN /\ result = Some(String(JsonText(variables[name])))
                 /\ variables[name] = JString("value") =>
                        Len(Unwrap(result).String) = length
            ELSE result = selector.default

\* ---------------------------------------------------------------------------
\* C9, as claimed. A query-variable selector, when the named variable is in
\* the variable map, yields a String that holds the JSON text of the bound
\* value (a scalar, null, an object or an array alike, never the default),
\* and the configured default, else nothing, when the variable is absent; a
\* variable bound to the scalar "value" yields a text of 9 characters.
\* ---------------------------------------------------------------------------
C9_NineCharacters == QueryVariableSerialized(9)

\* ---------------------------------------------------------------------------
\* C9, as amended. The same, and the text for the scalar "value" has 7
\* characters: the five letters between two quotes.
\* ---------------------------------------------------------------------------
C9_QueryVariableJsonText == QueryVariableSerialized(7)

\* A variable bound to an object, with a default configured.
C9_Witness ==
    /\ phase = "request"
    /\ selector.variant \in QueryVariableVariants
    /\ IsSome(selector.default)
    /\ SourceKey(selector) \in DOMAIN SourceRequest(selector).body.variables
    /\ result = Some(String("{\"a\":[1,true]}"))

\* The fields a variant declares, a skipped redact among them.
DeclaredFields(v) ==
    { v.field }
    \cup (IF v.default # "none" THEN { "default" } ELSE { })
    \cup (IF v.redact # "none" THEN { "redact" } ELSE { })

\* The variant of a family that a loaded selector is.
VariantNamed(family, self) ==
    LET vs == SelectorVariants(family)
    IN  vs[CHOOSE i \in 1..Len(vs) : vs[i].variant = self.variant]

\* ---------------------------------------------------------------------------
\* C10. The configuration schema is closed: in each family, an input object
\* that carries a field not declared by the variant it would otherwise match
\* is rejected at load time and no selector is produced from it; a selector
\* that is produced comes from an input whose fields its variant declares.
\* ---------------------------------------------------------------------------
C10_UnknownFieldRejected ==
    loaded.done =>
        /\ \A f \in DOMAIN config.input :
               LET otherwise == Deserialize(config.family, MapRemove(config.input, f))
               IN  (/\ otherwise.ok
                    /\ f \notin DeclaredFields(VariantNamed(config.family, otherwise.val)))
                       => ~loaded.result.ok
        /\ loaded.result.ok =>
               DOMAIN config.input \subseteq
                   DeclaredFields(VariantNamed(config.family, loaded.result.val))

\* A request-header object that loads without its unknown field and is
\* rejected with it.
C10_Witness ==
    /\ loaded.done
    /\ DOMAIN config.input = { "request_header", "unknown_field" }
    /\ Deserialize(config.family, MapRemove(config.input, "unknown_field")).ok
    /\ ~loaded.result.ok

\* The variant of a family whose source field has the given name.
VariantOfField(family, field) ==
    LET vs == SelectorVariants(family)
    IN  vs[CHOOSE i \in 1..Len(vs) : vs[i].field = field]

\* The input object is the source field of a variant that has a redact field,
\* a redact string and perhaps a default, and loads when redact is left out.
RedactCase(field) ==
    /\ loaded.done
    /\ field \in SourceFields(config.family)
    /\ { field, "redact" } \subseteq DOMAIN config.input
    /\ DOMAIN config.input \subseteq { field, "redact", "default" }
    /\ VariantOfField(config.family, field).redact # "none"
    /\ Variant(config.input["redact"]) = "string"
    /\ Deserialize(config.family, MapRemove(config.input, "redact")).ok

\* The input object loads and the selector holds its redact pattern.
RedactStored ==
    /\ loaded.result.ok
    /\ loaded.result.val.redact = Some(config.input["redact"].string)

\* ---------------------------------------------------------------------------
\* C11, as claimed. For every variant that has a redact field, an input
\* object made of the variant's source field and a redact string, with or
\* without default, is accepted at load and the selector holds the pattern.
\* ---------------------------------------------------------------------------
C11_RedactAccepted ==
    \A field \in DOMAIN config.input : RedactCase(field) => RedactStored

\* ---------------------------------------------------------------------------
\* C11, as amended. Such an object is accepted, and the pattern held, for the
\* variants that read redact from the input (the three query variants); for
\* the variants that skip redact at load it is rejected.
\* ---------------------------------------------------------------------------
C11_RedactReadByQueryVariants ==
    \A field \in DOMAIN config.input :
        RedactCase(field) =>
            IF VariantOfField(config.family, field).redact = "field"
            THEN RedactStored
            ELSE ~loaded.result.ok

\* A query object with redact and default: loaded, the pattern held.
C11_Witness ==
    /\ RedactCase("query")
    /\ "default" \in DOMAIN config.input
    /\ RedactStored
    /\ loaded.result.val.variant = "Query"

\* The redact patterns a selector may hold.
RedactPatterns == { None, Some("pattern"), Some("header_value") }

\* The same selector with another redact pattern.
WithRedact(self, pattern) == [self EXCEPT !.redact = pattern]

\* ---------------------------------------------------------------------------
\* C12. Redaction is never applied: a selector that differs from the one
\* evaluated only in its redact pattern gives, on the same request or response
\* and in the same ambient state, the same result.
\* ---------------------------------------------------------------------------
C12_RedactNeverApplied ==
    "redact" \in DOMAIN selector =>
        \A pattern \in RedactPatterns :
            /\ phase = "request" =>
                   OnRequestValue(WithRedact(selector, pattern), request) = result
            /\ phase = "response" =>
                   OnResponseValue(WithRedact(selector, pattern), response) = result

\* A request header is read in full by a selector whose pattern is its value.
C12_Witness ==
    /\ phase = "request"
    /\ selector.variant = "RequestHeader"
    /\ result = Some(String("header_value"))
    /\ OnRequestValue(WithRedact(selector, Some("header_value")), request) = result

\* The variants of the family that the input object deserializes as.
MatchingVariants ==
    { i \in 1..Len(SelectorVariants(config.family)) :
          DeserializeVariant(config.family, SelectorVariants(config.family)[i],
                             config.input).ok }

\* The source fields the input object carries.
SourceFieldsPresent == DOMAIN config.input \cap SourceFields(config.family)

\* ---------------------------------------------------------------------------
\* C13. Variant resolution in a family is unambiguous: the source field of a
\* variant is declared by no other variant of the family, an input object
\* deserializes as at most one variant, and an object that carries the source
\* fields of two variants, or of none, is rejected; an object that loads
\* carries the source field of the variant it loads as and no other.
\* ---------------------------------------------------------------------------
C13_UnambiguousResolution ==
    LET vs == SelectorVariants(config.family)
    IN  /\ \A i, j \in 1..Len(vs) :
               i # j => vs[i].field \notin DeclaredFields(vs[j])
        /\ loaded.done =>
               /\ Cardinality(MatchingVariants) <= 1
               /\ Cardinality(SourceFieldsPresent) # 1 => ~loaded.result.ok
               /\ loaded.result.ok =>
                      SourceFieldsPresent =
                          { VariantNamed(config.family, loaded.result.val).field }

\* An object with both request_header and env, each of which loads alone, is
\* rejected.
C13_Witness ==
    /\ loaded.done
    /\ DOMAIN config.input = { "request_header", "env" }
    /\ Deserialize(config.family, MapRemove(config.input, "env")).ok
    /\ Deserialize(config.family, MapRemove(config.input, "request_header")).ok
    /\ ~loaded.result.ok

\* The keyword of the trace identifier's first format, as the claim writes it
\* and as its amendment writes it.
ClaimedOpenTelemetry == "opentelemetry"
AmendedOpenTelemetry == "open_telemetry"

\* The keywords listed for each mode field and the mode each selects.
ListedKeywords(field, opentelemetry) ==
    CASE field = "trace_id" ->
             { << opentelemetry, "OpenTelemetry" >>, << "datadog", "Datadog" >> }
      [] field \in { "operation_name", "subgraph_operation_name",
                     "supergraph_operation_name" } ->
             { << "string", "String" >>, << "hash", "Hash" >> }
      [] field \in { "operation_kind", "subgraph_operation_kind",
                     "supergraph_operation_kind" } ->
             { << "string", "String" >> }
      [] field \in { "query", "subgraph_query", "supergraph_query" } ->
             { << "string", "String" >> }
      [] field \in { "response_status", "subgraph_response_status" } ->
             { << "code", "Code" >>, << "reason", "Reason" >> }
      [] OTHER -> { }

\* An input object that is a mode field of its family alone loads exactly when
\* its keyword is listed for the field, and the selector then carries the mode
\* listed for it.
KeywordsExactly(opentelemetry) ==
    \A field \in DOMAIN config.input :
        LET listed == ListedKeywords(field, opentelemetry)
            keyword == config.input[field]
        IN  (/\ loaded.done
             /\ DOMAIN config.input = { field }
             /\ field \in SourceFields(config.family)
             /\ listed # { }
             /\ Variant(keyword) = "string") =>
                IF \E l \in listed : l[1] = keyword.string
                THEN /\ loaded.result.ok
                     /\ << keyword.string, loaded.result.val[field] >> \in listed
                ELSE ~loaded.result.ok

\* ---------------------------------------------------------------------------
\* C14, as claimed. The keywords accepted at load are exactly: trace_id in
\* {opentelemetry, datadog}; operation_name in {string, hash}; operation_kind
\* in {string}; query in {string}; response_status in {code, reason}. Each
\* selects its mode and any other keyword is rejected.
\* ---------------------------------------------------------------------------
C14_ListedKeywords == KeywordsExactly(ClaimedOpenTelemetry)

\* ---------------------------------------------------------------------------
\* C14, as amended. The same, with open_telemetry as the keyword of the first
\* trace identifier format.
\* ---------------------------------------------------------------------------
C14_SnakeCaseKeywords == KeywordsExactly(AmendedOpenTelemetry)

\* trace_id: open_telemetry loads as the OpenTelemetry format.
C14_Witness ==
    /\ loaded.done
    /\ config.input = [trace_id |-> JString("open_telemetry")]
    /\ loaded.result.ok
    /\ loaded.result.val.trace_id = "OpenTelemetry"

\* The input object carries the source field of a variant and a default, and
\* loads when the default is left out.
DefaultCase(field) ==
    /\ loaded.done
    /\ SourceFieldsPresent = { field }
    /\ "default" \in DOMAIN config.input
    /\ Deserialize(config.family, MapRemove(config.input, "default")).ok

\* ---------------------------------------------------------------------------
\* C20. A default of the wrong type is fatal to load: an input object whose
\* default is not text, for a variant whose default is a String (the env,
\* operation-name and query variants), or that gives a default to a variant
\* that declares none (the status, trace-identifier and operation-kind
\* variants), is rejected; no object loads with the default it wrote dropped.
\* ---------------------------------------------------------------------------
C20_DefaultTypeErrorsRejected ==
    \A field \in DOMAIN config.input :
        DefaultCase(field) =>
            LET v == VariantOfField(config.family, field)
                default == config.input["default"]
            IN  /\ v.default = "none" => ~loaded.result.ok
                /\ (v.default = "String" /\ Variant(default) \notin { "string", "null" })
                       => ~loaded.result.ok
                /\ (loaded.result.ok /\ Variant(default) # "null") =>
                       /\ "default" \in DOMAIN loaded.result.val
                       /\ IsSome(loaded.result.val.default)

\* env with a number as its default is rejected.
C20_Witness ==
    /\ DefaultCase("env")
    /\ config.input = [env |-> JString("name"), default |-> JNumber(1)]
    /\ ~loaded.result.ok

Evaluates == built' = built /\ phase' \in { "request", "response" }

C16_ReadOnly ==
    [][Evaluates => /\ selector' = selector
                    /\ request' = request
                    /\ response' = response
                    /\ env' = env
                    /\ active' = active]_vars

\* A selector was evaluated to a value over a request that holds a context
\* entry while the environment variable is set.
C16_Witness ==
    /\ phase = "request"
    /\ IsSome(result)
    /\ request.context # EmptyMap
    /\ env # EmptyMap

\* ---------------------------------------------------------------------------
\* C17. An environment selector reads the environment anew at every
\* evaluation: whatever was set, removed and evaluated before, an evaluation on
\* the request gives the text the variable holds at that moment when it is
\* set, and the default, or nothing without one, when it is unset.
\* ---------------------------------------------------------------------------
EnvDefault == IF IsSome(selector.default) THEN Some(String(Unwrap(selector.default)))
              ELSE None

C17_LiveEnvironment ==
    selector.variant = "Env" =>
        \A i \in 1..Len(history) :
            history[i].phase = "request" =>
                LET seen == history[i].scene.env
                IN  /\ selector.env \notin DOMAIN seen => history[i].result = EnvDefault
                    /\ (selector.env \in DOMAIN seen /\ AllAscii(seen[selector.env])) =>
                           history[i].result =
                               Some(String(StrOfAscii(seen[selector.env])))

\* Unset, set and removed again: the default, the value, the default.
C17_Witness ==
    /\ selector.variant = "Env"
    /\ Len(history) = 3
    /\ \A i \in 1..3 : history[i].phase = "request"
    /\ selector.env \notin DOMAIN history[1].scene.env
    /\ history[1].result = Some(String("defaulted"))
    /\ selector.env \in DOMAIN history[2].scene.env
    /\ history[2].result = Some(String("env_value"))
    /\ selector.env \notin DOMAIN history[3].scene.env
    /\ history[3].result = Some(String("defaulted"))

\* ---------------------------------------------------------------------------
\* C18. A baggage selector evaluated on a request reads the baggage of the
\* active context alone: it gives the entry's value when the active baggage
\* holds the key at that moment and the default otherwise, whatever the
\* request's context map and headers hold under the same key; and a context
\* selector is not served by a baggage entry.
\* ---------------------------------------------------------------------------
C18_ActiveBaggageOnly ==
    \A i \in 1..Len(history) :
        history[i].phase = "request" =>
            LET baggage == history[i].scene.active.baggage
                context == history[i].scene.request.context
            IN  /\ selector.variant = "Baggage" =>
                       history[i].result =
                           IF selector.baggage \in DOMAIN baggage
                           THEN Some(AttributeValueFromBaggage(baggage[selector.baggage]))
                           ELSE selector.default
                /\ (selector.variant = "RequestContext"
                        /\ selector.request_context \notin DOMAIN context) =>
                       history[i].result = selector.default

\* The context map holds the key and the selector gives the default; baggage
\* is attached under the key and the same selector gives the baggage value.
C18_Witness ==
    /\ selector.variant = "Baggage"
    /\ Len(history) = 2
    /\ history[1].phase = "request"
    /\ history[2].phase = "request"
    /\ selector.baggage \in DOMAIN history[1].scene.request.context
    /\ selector.baggage \notin DOMAIN history[1].scene.active.baggage
    /\ history[1].result = Some(String("defaulted"))
    /\ selector.baggage \in DOMAIN history[2].scene.active.baggage
    /\ history[2].result = Some(String("baggage_value"))

\* ---------------------------------------------------------------------------
\* C19. Executions that evaluate the one selector at once do not disturb each
\* other: whatever the interleaving, the value an execution was returned is the
\* value the selector gives on that execution's own request or response under
\* that execution's own context, and no execution changed what another reads.
\* ---------------------------------------------------------------------------
Alone(i) ==
    IF executions[i].phase = "request"
    THEN OnRequestValue(selector, executions[i].request)
    ELSE OnResponseValue(selector, executions[i].response)

HeadersRead(self) ==
    IF self.variant \in { "ResponseHeader", "SubgraphResponseHeader" }
    THEN response.response.headers
    ELSE SourceRequest(self).headers

HeaderVariants ==
    { "RequestHeader", "SubgraphRequestHeader", "SupergraphRequestHeader",
      "ResponseHeader", "SubgraphResponseHeader" }

\* The header the selector names is present and its value is not text.
HeaderNotText ==
    /\ selector.variant \in HeaderVariants
    /\ MeaningfulAt(selector, phase)
    /\ LET h == HeaderGet(HeadersRead(selector), SourceKey(selector))
       IN  IsSome(h) /\ ~HeaderToStr(Unwrap(h)).ok

\* The context map read at the phase holds an entry under the key that does
\* not deserialize into the type the selector asks for.
ContextRetrievalFails ==
    /\ MeaningfulAt(selector, phase)
    /\ LET context == IF phase = "request" THEN request.context ELSE response.context
       IN  \/ /\ selector.variant \in { "RequestContext", "ResponseContext" }
              /\ SourceKey(selector) \in DOMAIN context
              /\ ~AttributeValueFromJson(context[SourceKey(selector)]).ok
           \/ /\ selector.variant \in { "OperationName", "SupergraphOperationName" }
              /\ OPERATION_NAME \in DOMAIN context
              /\ Variant(context[OPERATION_NAME]) # "string"

\* ---------------------------------------------------------------------------
\* C21. A soft failure of a source accessor is treated as an absent source: a
\* header that is present with a value that is not text, and a context entry
\* whose retrieval fails, give the configured default, or nothing without one.
\* (In hash mode the default is read through the digest.)
\* ---------------------------------------------------------------------------
C21_SoftFailureIsAbsence ==
    (phase # "none" /\ (HeaderNotText \/ ContextRetrievalFails)) =>
        result = Shaped(selector, DefaultValue(selector))

\* A request-header selector with a default over a header value that is not
\* text gave the default.
C21_Witness ==
    /\ phase = "request"
    /\ HeaderNotText
    /\ result = Some(String("defaulted"))

\* The one source a selector of the subgraph family is said to read: the
\* subgraph request, the originating supergraph request or the context map.
OwnSource(self) ==
    CASE self.variant \in { "SubgraphRequestHeader", "SubgraphQuery",
                            "SubgraphQueryVariable", "SubgraphOperationName" } ->
             "subgraph_request"
      [] self.variant \in { "SupergraphRequestHeader", "SupergraphQuery",
                            "SupergraphQueryVariable" } ->
             "supergraph_request"
      [] self.variant \in { "SupergraphOperationName", "SupergraphOperationKind" } ->
             "context"
      [] OTHER -> "none"

\* The selector's own source holds nothing for it.
OwnSourceEmpty(self) ==
    LET own == OwnSource(self)
    IN  CASE self.variant \in { "SubgraphRequestHeader", "SupergraphRequestHeader" } ->
                 HeaderGet(request[own].headers, SourceKey(self)) = None
          [] self.variant \in { "SubgraphQuery", "SupergraphQuery" } ->
                 request[own].body.query = None
          [] self.variant \in { "SubgraphQueryVariable", "SupergraphQueryVariable" } ->
                 SourceKey(self) \notin DOMAIN request[own].body.variables
          [] self.variant = "SubgraphOperationName" ->
                 request[own].body.operation_name = None
          [] self.variant = "SupergraphOperationName" ->
                 OPERATION_NAME \notin DOMAIN request.context
          [] self.variant = "SupergraphOperationKind" ->
                 OPERATION_KIND \notin DOMAIN request.context
          [] OTHER -> FALSE

\* ---------------------------------------------------------------------------
\* C22. Source isolation in the subgraph family: on a request, a selector
\* whose own source (the subgraph request for the subgraph_* selectors, the
\* supergraph request for supergraph_request_header, supergraph_query and
\* supergraph_query_variable, the context map for supergraph_operation_name
\* and supergraph_operation_kind) holds nothing gives its default, or nothing
\* without one, whatever the other sources hold.
\* ---------------------------------------------------------------------------
C22_SubgraphSourceIsolation ==
    (phase = "request" /\ selector.family = "subgraph"
        /\ OwnSource(selector) # "none" /\ OwnSourceEmpty(selector)) =>
        result = Shaped(selector, DefaultValue(selector))

\* A subgraph_request_header selector gave its default on a request whose
\* supergraph request alone carries the header.
C22_Witness ==
    /\ phase = "request"
    /\ selector.variant = "SubgraphRequestHeader"
    /\ OwnSourceEmpty(selector)
    /\ IsSome(HeaderAttribute(request.supergraph_request.headers, SourceKey(selector)))
    /\ result = Some(String("defaulted"))

\* ---------------------------------------------------------------------------
\* C23. The operation-kind selectors have no default. On a request, supergraph
\* operation_kind and subgraph supergraph_operation_kind give the value stored
\* in the context map under the operation-kind key when there is one ("query"
\* gives "query") and nothing otherwise; subgraph subgraph_operation_kind
\* always gives a String, the operation type of the subgraph request.
\* ---------------------------------------------------------------------------
C23_OperationKind ==
    phase = "request" =>
        /\ selector.variant \in { "OperationKind", "SupergraphOperationKind",
                                  "SubgraphOperationKind" }
               => "default" \notin DOMAIN selector
        /\ selector.variant \in { "OperationKind", "SupergraphOperationKind" } =>
               result = IF OPERATION_KIND \in DOMAIN request.context
                        THEN Some(String(request.context[OPERATION_KIND].string))
                        ELSE None
        /\ selector.variant = "SubgraphOperationKind" =>
               /\ IsSome(result)
               /\ Variant(Unwrap(result)) = "String"
               /\ \/ request.operation_kind = "Query"
                     /\ result = Some(String("query"))
                  \/ request.operation_kind = "Mutation"
                     /\ result = Some(String("mutation"))
                  \/ request.operation_kind = "Subscription"
                     /\ result = Some(String("subscription"))

\* The context map holds "query" under the key and the supergraph selector
\* gave "query".
C23_Witness ==
    /\ phase = "request"
    /\ selector.variant = "OperationKind"
    /\ OPERATION_KIND \in DOMAIN request.context
    /\ result = Some(String("query"))

\* The limbs of a 128-bit integer above its low 64 bits.
HighLimbs(n) == SubSeq(n, 1, 4)

\* ---------------------------------------------------------------------------
\* C24. The Datadog format produces a u64: for every valid trace identifier
\* the Datadog output lies within 0 .. 2^64 - 1, that is, its high 64 bits
\* are zero.
\* ---------------------------------------------------------------------------
C24_DatadogWithinU64 ==
    (/\ phase = "request"
     /\ selector = TraceIdSelector("Datadog")
     /\ IsSome(result)) =>
        HighLimbs(Unwrap(result).U128) = << 0, 0, 0, 0 >>

\* The selector reads ambient state and is not the router's baggage selector.
RequestPhaseAmbient(self) ==
    \/ self.variant = "Env"
    \/ self.variant = "TraceId"
    \/ self.variant = "Baggage" /\ self.family \in { "supergraph", "subgraph" }

\* What the selector would read is there: the variable is set, the baggage
\* holds the key, a valid span context is active.
AmbientPresent(self) ==
    CASE self.variant = "Env" -> self.env \in DOMAIN env
      [] self.variant = "Baggage" -> self.baggage \in DOMAIN active.baggage
      [] self.variant = "TraceId" ->
             /\ IsSome(active.span)
             /\ Unwrap(active.span).trace_id # TraceIdInvalid
             /\ Unwrap(active.span).span_id # 0
      [] OTHER -> FALSE

\* ---------------------------------------------------------------------------
\* C25. Outside the router's baggage selector the ambient selectors answer at
\* request time only: the env selectors of the three families, the router
\* trace_id selector and the supergraph and subgraph baggage selectors give
\* nothing on a response, whatever the response and the ambient state hold
\* and whatever default is configured.
\* ---------------------------------------------------------------------------
C25_AmbientRequestOnly ==
    (phase = "response" /\ RequestPhaseAmbient(selector)) => result = None

\* An env selector with a default gave nothing on a response while the
\* variable is set.
C25_Witness ==
    /\ phase = "response"
    /\ selector.variant = "Env"
    /\ IsSome(selector.default)
    /\ AmbientPresent(selector)
    /\ result = None

\* ---------------------------------------------------------------------------
\* C26. The router's baggage selector is phase-symmetric: evaluations of the
\* selector that saw the same active baggage, on a request or on a response,
\* gave the same result, the entry's value when the baggage holds the key and
\* the default, or nothing without one, otherwise, whatever the request and
\* the response hold.
\* ---------------------------------------------------------------------------
C26_RouterBaggagePhaseSymmetric ==
    (selector.family = "router" /\ selector.variant = "Baggage") =>
        \A i, j \in 1..Len(history) :
            LET seen == history[i].scene.active.baggage
            IN  /\ history[i].result =
                       IF selector.baggage \in DOMAIN seen
                       THEN Some(AttributeValueFromBaggage(seen[selector.baggage]))
                       ELSE selector.default
                /\ seen = history[j].scene.active.baggage =>
                       history[i].result = history[j].result

\* Under the attached baggage the selector gave the baggage value on the
\* request and, after the request was given a context entry under the key, on
\* the response.
C26_Witness ==
    /\ selector.family = "router"
    /\ selector.variant = "Baggage"
    /\ Len(history) = 2
    /\ history[1].phase = "request"
    /\ history[2].phase = "response"
    /\ history[1].scene.request # history[2].scene.request
    /\ history[1].result = Some(String("baggage_value"))
    /\ history[2].result = Some(String("baggage_value"))

\* The variable the selector names is set to text (the values of the model
\* that are valid Unicode are the ASCII ones).
EnvIsText == selector.env \in DOMAIN env /\ AllAscii(env[selector.env])

\* ---------------------------------------------------------------------------
\* C27. An env selector on a request falls back to its default exactly when
\* the variable is unset or its value is not valid Unicode; a variable set to
\* the empty text gives the empty String, not the default; and what is read is
\* always of the String kind.
\* ---------------------------------------------------------------------------
C27_EnvFallback ==
    (phase = "request" /\ selector.variant = "Env") =>
        /\ ~EnvIsText => result = EnvDefault
        /\ EnvIsText => result = Some(String(StrOfAscii(env[selector.env])))
        /\ (selector.env \in DOMAIN env /\ env[selector.env] = << >>)
               => result = Some(String(""))
        /\ IsSome(result) => Variant(Unwrap(result)) = "String"

\* The variable is set to the empty text and the selector, which has a
\* default, gave the empty String.
C27_Witness ==
    /\ phase = "request"
    /\ selector.variant = "Env"
    /\ IsSome(selector.default)
    /\ selector.env \in DOMAIN env
    /\ env[selector.env] = << >>
    /\ result = Some(String(""))

\* The discriminating fields listed for each family.
ListedFields(family) ==
    CASE family = "router" ->
             { "request_header", "response_header", "response_status", "trace_id",
               "response_context", "baggage", "env" }
      [] family = "supergraph" ->
             { "operation_name", "operation_kind", "query", "query_variable",
               "request_header", "response_header", "request_context",
               "response_context", "baggage", "env" }
      [] family = "subgraph" ->
             { "subgraph_operation_name", "subgraph_operation_kind", "subgraph_query",
               "subgraph_query_variable", "subgraph_response_body",
               "subgraph_request_header", "subgraph_response_header",
               "subgraph_response_status", "supergraph_operation_name",
               "supergraph_operation_kind", "supergraph_query",
               "supergraph_query_variable", "supergraph_request_header",
               "request_context", "response_context", "baggage", "env" }

\* The discriminating fields of the three families together.
DiscriminatingFields == UNION { ListedFields(family) : family \in Families }

\* ---------------------------------------------------------------------------
\* C28. Each family is closed to its own tier: an input object that carries a
\* discriminating field which is not listed for its family is rejected
\* (request_context, operation_name and query by the router family, trace_id
\* and response_status by the supergraph family, request_header and
\* operation_name by the subgraph family), and each listed field, alone and
\* with a value of its kind, loads.
\* ---------------------------------------------------------------------------
C28_FamilyClosed ==
    loaded.done =>
        /\ (DOMAIN config.input \cap DiscriminatingFields)
               \ ListedFields(config.family) # { } => ~loaded.result.ok
        /\ \A field \in ListedFields(config.family) :
               LET listed == ListedKeywords(field, AmendedOpenTelemetry)
                   value == config.input[field]
               IN  (/\ DOMAIN config.input = { field }
                    /\ Variant(value) = "string"
                    /\ listed # { } => \E l \in listed : l[1] = value.string)
                       => loaded.result.ok

\* request_context alone, which loads in the supergraph family, is rejected by
\* the router family.
C28_Witness ==
    /\ config.family = "router"
    /\ config.input = [request_context |-> JString("name")]
    /\ loaded.done
    /\ ~loaded.result.ok
    /\ Deserialize("supergraph", config.input).ok

====
